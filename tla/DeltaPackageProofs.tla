------------------------- MODULE DeltaPackageProofs -------------------------
(***************************************************************************)
(* Proofs about the delta of one worker.                                   *)
(*                                                                         *)
(* First ManifestDelta, for any paths, versions and order.  What the walk  *)
(* has passed in one manifest precedes what it has left in the other, so a *)
(* path that comes first cannot be in the other manifest.                  *)
(*                                                                         *)
(* Then DeltaEnvelope, for any workers, manifests and damages.  The name   *)
(* of an artifact holds its producer and its manifest, and verification    *)
(* leads from the name to every part; a temporary directory belongs to the *)
(* phase its job is in, or was reported.                                   *)
(***************************************************************************)
EXTENDS ManifestDelta, DeltaEnvelope, TLAPS

\* What Listings says of a listing.
Lists(s, content) ==
  /\ s \in Seq(Path)
  /\ \A p \in Path : p \in Present(content) <=> \E k \in DOMAIN s : s[k] = p
  /\ \A j, k \in DOMAIN s : j < k => s[j] # s[k] /\ Rank[s[j]] <= Rank[s[k]]

PassedPrevious == {k \in DOMAIN previousEntries : k < previousIndex}
PassedCurrent == {k \in DOMAIN currentEntries : k < currentIndex}
LeftPrevious == {k \in DOMAIN previousEntries : k >= previousIndex}
LeftCurrent == {k \in DOMAIN currentEntries : k >= currentIndex}

\* The paths the walk is done with, and what it should have written of them.
Handled ==
  {previousEntries[k] : k \in PassedPrevious} \cup {currentEntries[k] : k \in PassedCurrent}
Difference(p) == [path |-> p, previous |-> was[p], current |-> is[p]]

\* What is passed in one manifest, and what is written, precedes what is left.
InStep ==
  /\ \A j \in PassedPrevious, k \in LeftCurrent :
       Rank[previousEntries[j]] < Rank[currentEntries[k]]
  /\ \A j \in PassedCurrent, k \in LeftPrevious :
       Rank[currentEntries[j]] < Rank[previousEntries[k]]
  /\ \A j \in DOMAIN entries, k \in LeftPrevious :
       Rank[entries[j].path] < Rank[previousEntries[k]]
  /\ \A j \in DOMAIN entries, k \in LeftCurrent :
       Rank[entries[j].path] < Rank[currentEntries[k]]

Written ==
  {entries[k] : k \in DOMAIN entries} = {Difference(p) : p \in {q \in Handled : was[q] # is[q]}}
Sorted ==
  \A j, k \in DOMAIN entries : j < k => Rank[entries[j].path] < Rank[entries[k].path]

IInv ==
  /\ TypeOK
  /\ Lists(previousEntries, was) /\ Lists(currentEntries, is)
  /\ NamesDiffer => InStep /\ Written /\ Sorted
  /\ phase = "computed" => ~PreviousLeft /\ ~CurrentLeft

-----------------------------------------------------------------------------
LEMMA ListingsType ==
  ASSUME NEW content, NEW s \in Listings(content)
  PROVE  Lists(s, content)
<1>1. PICK n \in 0 .. Cardinality(Path) : s \in [1 .. n -> Path]
  BY DEF Listings
<1>2. s \in Seq(Path)
  BY <1>1
<1> QED
  BY <1>2 DEF Listings, Lists

LEMMA InitIInv == Init => IInv
<1> SUFFICES ASSUME Init PROVE IInv
  OBVIOUS
<1>1. Lists(previousEntries, was) /\ Lists(currentEntries, is)
  BY ListingsType DEF Init
<1>2. Len(previousEntries) \in Nat /\ Len(currentEntries) \in Nat
  BY <1>1 DEF Lists
<1>3. TypeOK
  BY <1>1, <1>2 DEF Init, Lists, TypeOK
<1>4. DOMAIN entries = {} /\ PassedPrevious = {} /\ PassedCurrent = {}
  BY <1>1 DEF Init, Lists, PassedPrevious, PassedCurrent
<1>5. InStep /\ Sorted
  BY <1>4 DEF InStep, Sorted
<1>6. Written
  BY <1>4 DEF Written, Handled
<1> QED
  BY <1>1, <1>3, <1>5, <1>6 DEF IInv, Init

\* With different names, both manifests are strictly sorted.
LEMMA StrictLists ==
  ASSUME IInv, NamesDiffer
  PROVE  /\ \A j, k \in DOMAIN previousEntries :
              j < k => Rank[previousEntries[j]] < Rank[previousEntries[k]]
         /\ \A j, k \in DOMAIN currentEntries :
              j < k => Rank[currentEntries[j]] < Rank[currentEntries[k]]
<1>1. /\ \A k \in DOMAIN previousEntries : previousEntries[k] \in Present(was)
      /\ \A k \in DOMAIN currentEntries : currentEntries[k] \in Present(is)
  BY DEF IInv, Lists
<1>2. \A p \in Path : Rank[p] \in Nat
  BY ManifestAssumption
<1>3. Present(was) \subseteq Path /\ Present(is) \subseteq Path
  BY DEF Present
<1> QED
  BY <1>1, <1>2, <1>3 DEF IInv, Lists, NamesDiffer

-----------------------------------------------------------------------------
\* Writing an entry, and what it keeps: its path precedes all that is left.
LEMMA AppendSorted ==
  ASSUME entries \in Seq(Entry), NEW e \in Entry, entries' = Append(entries, e), Sorted,
         \A j \in DOMAIN entries : Rank[entries[j].path] < Rank[e.path]
  PROVE  /\ Sorted' /\ entries' \in Seq(Entry)
         /\ {entries'[k] : k \in DOMAIN entries'} = {entries[k] : k \in DOMAIN entries} \cup {e}
         /\ \A j \in DOMAIN entries' : \/ j \in DOMAIN entries /\ entries'[j] = entries[j]
                                       \/ entries'[j] = e
<1>1. /\ Len(entries) \in Nat /\ DOMAIN entries = 1 .. Len(entries)
      /\ DOMAIN entries' = 1 .. Len(entries) + 1
      /\ entries'[Len(entries) + 1] = e
      /\ \A j \in 1 .. Len(entries) : entries'[j] = entries[j]
  OBVIOUS
<1>2. Sorted'
  BY <1>1 DEF Sorted
<1> QED
  BY <1>1, <1>2

\* A path only the previous manifest has.
LEMMA AddDeletedStep ==
  ASSUME IInv, AddDeleted
  PROVE  IInv'
<1> DEFINE e == [path |-> PreviousPath, previous |-> was[PreviousPath], current |-> Absent]
<1>1. /\ entries' = Append(entries, e) /\ previousIndex' = previousIndex + 1
      /\ UNCHANGED <<was, is, previousEntries, currentEntries, currentIndex, phase>>
      /\ PreviousFirst /\ phase = "walk"
  BY DEF AddDeleted, DeltaEntry, manifests, After
<1>2. previousIndex \in DOMAIN previousEntries /\ PreviousPath \in Path
      /\ Len(previousEntries) \in Nat
  BY <1>1 DEF IInv, TypeOK, PreviousFirst, PreviousLeft, PreviousPath
<1>3. was[PreviousPath] # Absent /\ was[PreviousPath] \in Version \cup {Absent}
  BY <1>2 DEF IInv, Lists, Present, PreviousPath, TypeOK, Content
<1>4. e \in Entry
  BY <1>2, <1>3 DEF Entry
<1>5. TypeOK'
  BY <1>1, <1>2, <1>4 DEF IInv, TypeOK, PreviousFirst, PreviousLeft
<1>6. ASSUME NamesDiffer PROVE InStep' /\ Written' /\ Sorted'
  <2>1. \A p \in Path : Rank[p] \in Nat
    BY ManifestAssumption
  <2>2. /\ previousEntries \in Seq(Path) /\ currentEntries \in Seq(Path)
        /\ previousIndex \in Nat /\ currentIndex \in Nat
    BY DEF IInv, TypeOK
  <2>3. /\ PassedPrevious' = PassedPrevious \cup {previousIndex}
        /\ LeftPrevious' = LeftPrevious \ {previousIndex}
        /\ PassedCurrent' = PassedCurrent /\ LeftCurrent' = LeftCurrent
        /\ previousIndex \in LeftPrevious
    BY <1>1, <1>2, <2>2 DEF PassedPrevious, LeftPrevious, PassedCurrent, LeftCurrent
  <2>4. \A k \in LeftCurrent : Rank[PreviousPath] < Rank[currentEntries[k]]
    <3> SUFFICES ASSUME NEW k \in LeftCurrent
                 PROVE  Rank[PreviousPath] < Rank[currentEntries[k]]
      OBVIOUS
    <3>1. currentIndex \in DOMAIN currentEntries /\ k \in DOMAIN currentEntries
          /\ k >= currentIndex
      BY <2>2 DEF LeftCurrent, IInv, TypeOK
    <3>2. Rank[PreviousPath] < Rank[currentEntries[currentIndex]]
      BY <1>1, <2>2, <3>1 DEF PreviousFirst, CurrentLeft, CurrentPath
    <3>3. k = currentIndex \/ Rank[currentEntries[currentIndex]] < Rank[currentEntries[k]]
      BY <1>6, <2>2, <3>1, StrictLists
    <3>4. /\ currentEntries[k] \in Path /\ currentEntries[currentIndex] \in Path
      BY <2>2, <3>1
    <3> QED BY <1>2, <2>1, <3>2, <3>3, <3>4
  <2>5. \A k \in LeftPrevious \ {previousIndex} : Rank[PreviousPath] < Rank[previousEntries[k]]
    BY <1>2, <1>6, <2>2, StrictLists DEF LeftPrevious, PreviousPath
  <2>6. \A j \in DOMAIN entries : Rank[entries[j].path] < Rank[e.path]
    BY <1>6, <2>3 DEF IInv, InStep, PreviousPath
  <2>7. \A j \in PassedCurrent : Rank[currentEntries[j]] < Rank[PreviousPath]
    BY <1>6, <2>3 DEF IInv, InStep, PreviousPath
  <2>8. is[PreviousPath] = Absent
    <3> SUFFICES ASSUME NEW k \in DOMAIN currentEntries, currentEntries[k] = PreviousPath
                 PROVE  FALSE
      BY <1>2 DEF IInv, Lists, Present
    <3>1. k \in PassedCurrent \/ k \in LeftCurrent
      BY <2>2 DEF PassedCurrent, LeftCurrent
    <3> QED BY <1>2, <2>1, <2>4, <2>7, <3>1
  <2>9. e = Difference(PreviousPath) /\ was[PreviousPath] # is[PreviousPath]
    BY <1>3, <2>8 DEF Difference
  <2>10. Handled' = Handled \cup {PreviousPath}
    BY <1>1, <2>3 DEF Handled, PreviousPath
  <2> HIDE DEF e
  <2>11. /\ Sorted'
         /\ {entries'[k] : k \in DOMAIN entries'} = {entries[k] : k \in DOMAIN entries} \cup {e}
         /\ \A j \in DOMAIN entries' : \/ j \in DOMAIN entries /\ entries'[j] = entries[j]
                                       \/ entries'[j] = e
    BY <1>1, <1>4, <1>6, <2>6, AppendSorted DEF IInv, TypeOK
  <2>12. Written'
    BY <1>1, <1>6, <2>9, <2>10, <2>11 DEF IInv, Written, Difference
  <2>13. InStep'
    <3>1. \A j \in PassedPrevious', k \in LeftCurrent :
            Rank[previousEntries[j]] < Rank[currentEntries[k]]
      BY <1>6, <2>3, <2>4 DEF IInv, InStep, PreviousPath
    <3>2. \A j \in PassedCurrent, k \in LeftPrevious' :
            Rank[currentEntries[j]] < Rank[previousEntries[k]]
      BY <1>6, <2>3 DEF IInv, InStep
    <3>3. \A j \in DOMAIN entries', k \in LeftPrevious' :
            Rank[entries'[j].path] < Rank[previousEntries[k]]
      BY <1>6, <2>3, <2>5, <2>11 DEF IInv, InStep, e
    <3>4. \A j \in DOMAIN entries', k \in LeftCurrent :
            Rank[entries'[j].path] < Rank[currentEntries[k]]
      BY <1>6, <2>4, <2>11 DEF IInv, InStep, e
    <3> QED BY <1>1, <2>3, <3>1, <3>2, <3>3, <3>4 DEF InStep
  <2> QED BY <2>11, <2>12, <2>13
<1>7. NamesDiffer' <=> NamesDiffer
  BY <1>1 DEF NamesDiffer, Present
<1>8. (Lists(previousEntries, was) /\ Lists(currentEntries, is))'
  BY <1>1 DEF IInv, Lists, Present
<1> QED
  BY <1>1, <1>5, <1>6, <1>7, <1>8 DEF IInv

\* A path only the current manifest has.
LEMMA AddAddedStep ==
  ASSUME IInv, AddAdded
  PROVE  IInv'
<1> DEFINE e == [path |-> CurrentPath, previous |-> Absent, current |-> is[CurrentPath]]
<1>1. /\ entries' = Append(entries, e) /\ currentIndex' = currentIndex + 1
      /\ UNCHANGED <<is, was, currentEntries, previousEntries, previousIndex, phase>>
      /\ CurrentFirst /\ phase = "walk"
  BY DEF AddAdded, DeltaEntry, manifests, After
<1>2. currentIndex \in DOMAIN currentEntries /\ CurrentPath \in Path
      /\ Len(currentEntries) \in Nat
  BY <1>1 DEF IInv, TypeOK, CurrentFirst, CurrentLeft, CurrentPath
<1>3. is[CurrentPath] # Absent /\ is[CurrentPath] \in Version \cup {Absent}
  BY <1>2 DEF IInv, Lists, Present, CurrentPath, TypeOK, Content
<1>4. e \in Entry
  BY <1>2, <1>3 DEF Entry
<1>5. TypeOK'
  BY <1>1, <1>2, <1>4 DEF IInv, TypeOK, CurrentFirst, CurrentLeft
<1>6. ASSUME NamesDiffer PROVE InStep' /\ Written' /\ Sorted'
  <2>1. \A p \in Path : Rank[p] \in Nat
    BY ManifestAssumption
  <2>2. /\ currentEntries \in Seq(Path) /\ previousEntries \in Seq(Path)
        /\ currentIndex \in Nat /\ previousIndex \in Nat
    BY DEF IInv, TypeOK
  <2>3. /\ PassedCurrent' = PassedCurrent \cup {currentIndex}
        /\ LeftCurrent' = LeftCurrent \ {currentIndex}
        /\ PassedPrevious' = PassedPrevious /\ LeftPrevious' = LeftPrevious
        /\ currentIndex \in LeftCurrent
    BY <1>1, <1>2, <2>2 DEF PassedCurrent, LeftCurrent, PassedPrevious, LeftPrevious
  <2>4. \A k \in LeftPrevious : Rank[CurrentPath] < Rank[previousEntries[k]]
    <3> SUFFICES ASSUME NEW k \in LeftPrevious
                 PROVE  Rank[CurrentPath] < Rank[previousEntries[k]]
      OBVIOUS
    <3>1. previousIndex \in DOMAIN previousEntries /\ k \in DOMAIN previousEntries
          /\ k >= previousIndex
      BY <2>2 DEF LeftPrevious, IInv, TypeOK
    <3>2. Rank[CurrentPath] < Rank[previousEntries[previousIndex]]
      BY <1>1, <2>2, <3>1 DEF CurrentFirst, PreviousLeft, PreviousPath
    <3>3. k = previousIndex \/ Rank[previousEntries[previousIndex]] < Rank[previousEntries[k]]
      BY <1>6, <2>2, <3>1, StrictLists
    <3>4. /\ previousEntries[k] \in Path /\ previousEntries[previousIndex] \in Path
      BY <2>2, <3>1
    <3> QED BY <1>2, <2>1, <3>2, <3>3, <3>4
  <2>5. \A k \in LeftCurrent \ {currentIndex} : Rank[CurrentPath] < Rank[currentEntries[k]]
    BY <1>2, <1>6, <2>2, StrictLists DEF LeftCurrent, CurrentPath
  <2>6. \A j \in DOMAIN entries : Rank[entries[j].path] < Rank[e.path]
    BY <1>6, <2>3 DEF IInv, InStep, CurrentPath
  <2>7. \A j \in PassedPrevious : Rank[previousEntries[j]] < Rank[CurrentPath]
    BY <1>6, <2>3 DEF IInv, InStep, CurrentPath
  <2>8. was[CurrentPath] = Absent
    <3> SUFFICES ASSUME NEW k \in DOMAIN previousEntries, previousEntries[k] = CurrentPath
                 PROVE  FALSE
      BY <1>2 DEF IInv, Lists, Present
    <3>1. k \in PassedPrevious \/ k \in LeftPrevious
      BY <2>2 DEF PassedPrevious, LeftPrevious
    <3> QED BY <1>2, <2>1, <2>4, <2>7, <3>1
  <2>9. e = Difference(CurrentPath) /\ is[CurrentPath] # was[CurrentPath]
    BY <1>3, <2>8 DEF Difference
  <2>10. Handled' = Handled \cup {CurrentPath}
    BY <1>1, <2>3 DEF Handled, CurrentPath
  <2> HIDE DEF e
  <2>11. /\ Sorted'
         /\ {entries'[k] : k \in DOMAIN entries'} = {entries[k] : k \in DOMAIN entries} \cup {e}
         /\ \A j \in DOMAIN entries' : \/ j \in DOMAIN entries /\ entries'[j] = entries[j]
                                       \/ entries'[j] = e
    BY <1>1, <1>4, <1>6, <2>6, AppendSorted DEF IInv, TypeOK
  <2>12. Written'
    BY <1>1, <1>6, <2>9, <2>10, <2>11 DEF IInv, Written, Difference
  <2>13. InStep'
    <3>1. \A j \in PassedCurrent', k \in LeftPrevious :
            Rank[currentEntries[j]] < Rank[previousEntries[k]]
      BY <1>6, <2>3, <2>4 DEF IInv, InStep, CurrentPath
    <3>2. \A j \in PassedPrevious, k \in LeftCurrent' :
            Rank[previousEntries[j]] < Rank[currentEntries[k]]
      BY <1>6, <2>3 DEF IInv, InStep
    <3>3. \A j \in DOMAIN entries', k \in LeftCurrent' :
            Rank[entries'[j].path] < Rank[currentEntries[k]]
      BY <1>6, <2>3, <2>5, <2>11 DEF IInv, InStep, e
    <3>4. \A j \in DOMAIN entries', k \in LeftPrevious :
            Rank[entries'[j].path] < Rank[previousEntries[k]]
      BY <1>6, <2>4, <2>11 DEF IInv, InStep, e
    <3> QED BY <1>1, <2>3, <3>1, <3>2, <3>3, <3>4 DEF InStep
  <2> QED BY <2>11, <2>12, <2>13
<1>7. NamesDiffer' <=> NamesDiffer
  BY <1>1 DEF NamesDiffer, Present
<1>8. (Lists(currentEntries, is) /\ Lists(previousEntries, was))'
  BY <1>1 DEF IInv, Lists, Present
<1> QED
  BY <1>1, <1>5, <1>6, <1>7, <1>8 DEF IInv

\* A path localeCompare calls the same in both manifests.
LEMMA CompareStep ==
  ASSUME IInv, Compare
  PROVE  IInv'
<1> DEFINE e == [path |-> PreviousPath, previous |-> was[PreviousPath],
                 current |-> is[CurrentPath]]
<1>1. /\ entries' = IF was[PreviousPath] = is[CurrentPath] THEN entries ELSE Append(entries, e)
      /\ previousIndex' = previousIndex + 1 /\ currentIndex' = currentIndex + 1
      /\ UNCHANGED <<was, is, previousEntries, currentEntries, phase>>
      /\ PreviousLeft /\ CurrentLeft /\ ~PreviousFirst /\ ~CurrentFirst /\ phase = "walk"
  BY DEF Compare, Equivalent, DeltaEntry, manifests, After
<1>2. /\ previousIndex \in DOMAIN previousEntries /\ PreviousPath \in Path
      /\ currentIndex \in DOMAIN currentEntries /\ CurrentPath \in Path
      /\ Len(previousEntries) \in Nat /\ Len(currentEntries) \in Nat
  BY <1>1 DEF IInv, TypeOK, PreviousLeft, PreviousPath, CurrentLeft, CurrentPath
<1>3. was[PreviousPath] # Absent /\ is[CurrentPath] # Absent
  BY <1>2 DEF IInv, Lists, Present, PreviousPath, CurrentPath
<1>4. e \in Entry
  BY <1>2 DEF Entry, IInv, TypeOK, Content
<1>5. TypeOK'
  <2>1. entries' \in Seq(Entry)
    BY <1>1, <1>4 DEF IInv, TypeOK
  <2> QED
    BY <1>1, <1>2, <2>1 DEF IInv, TypeOK, PreviousLeft, CurrentLeft
<1>6. ASSUME NamesDiffer PROVE InStep' /\ Written' /\ Sorted'
  <2>1. \A p \in Path : Rank[p] \in Nat
    BY ManifestAssumption
  <2>2. /\ previousEntries \in Seq(Path) /\ currentEntries \in Seq(Path)
        /\ previousIndex \in Nat /\ currentIndex \in Nat
    BY DEF IInv, TypeOK
  <2>3. /\ PassedPrevious' = PassedPrevious \cup {previousIndex}
        /\ LeftPrevious' = LeftPrevious \ {previousIndex}
        /\ PassedCurrent' = PassedCurrent \cup {currentIndex}
        /\ LeftCurrent' = LeftCurrent \ {currentIndex}
        /\ previousIndex \in LeftPrevious /\ currentIndex \in LeftCurrent
    BY <1>1, <1>2, <2>2 DEF PassedPrevious, LeftPrevious, PassedCurrent, LeftCurrent
  <2>4. PreviousPath = CurrentPath
    <3>1. Rank[PreviousPath] = Rank[CurrentPath]
      BY <1>1, <1>2, <2>1 DEF PreviousFirst, CurrentFirst
    <3>2. PreviousPath \in Present(was) /\ CurrentPath \in Present(is)
      BY <1>2, <1>3 DEF Present
    <3> QED BY <1>6, <3>1, <3>2 DEF NamesDiffer
  <2>5. \A k \in LeftPrevious \ {previousIndex} : Rank[PreviousPath] < Rank[previousEntries[k]]
    BY <1>2, <1>6, <2>2, StrictLists DEF LeftPrevious, PreviousPath
  <2>6. \A k \in LeftCurrent \ {currentIndex} : Rank[PreviousPath] < Rank[currentEntries[k]]
    BY <1>2, <1>6, <2>2, <2>4, StrictLists DEF LeftCurrent, CurrentPath
  <2>7. \A j \in DOMAIN entries : Rank[entries[j].path] < Rank[e.path]
    BY <1>6, <2>3 DEF IInv, InStep, PreviousPath
  <2>8. Handled' = Handled \cup {PreviousPath}
    BY <1>1, <2>3, <2>4 DEF Handled, PreviousPath, CurrentPath
  <2>9. e = Difference(PreviousPath)
    BY <2>4 DEF Difference
  <2>10. /\ \A j \in PassedPrevious', k \in LeftCurrent' :
              Rank[previousEntries[j]] < Rank[currentEntries[k]]
         /\ \A j \in PassedCurrent', k \in LeftPrevious' :
              Rank[currentEntries[j]] < Rank[previousEntries[k]]
    BY <1>6, <2>3, <2>4, <2>5, <2>6 DEF IInv, InStep, PreviousPath, CurrentPath
  <2> HIDE DEF e
  <2>11. CASE was[PreviousPath] = is[CurrentPath]
    <3>1. entries' = entries
      BY <1>1, <2>11
    <3>2. InStep'
      BY <1>1, <1>6, <2>3, <2>10, <3>1 DEF IInv, InStep
    <3>3. Written'
      BY <1>1, <1>6, <2>4, <2>8, <2>11, <3>1 DEF IInv, Written, Difference
    <3>4. Sorted'
      BY <1>6, <3>1 DEF IInv, Sorted
    <3> QED BY <3>2, <3>3, <3>4
  <2>12. CASE was[PreviousPath] # is[CurrentPath]
    <3>1. entries' = Append(entries, e)
      BY <1>1, <2>12
    <3>2. /\ Sorted'
          /\ {entries'[k] : k \in DOMAIN entries'} = {entries[k] : k \in DOMAIN entries} \cup {e}
          /\ \A j \in DOMAIN entries' : \/ j \in DOMAIN entries /\ entries'[j] = entries[j]
                                        \/ entries'[j] = e
      BY <1>4, <1>6, <2>7, <3>1, AppendSorted DEF IInv, TypeOK
    <3>3. Written'
      BY <1>1, <1>6, <2>4, <2>8, <2>9, <2>12, <3>2 DEF IInv, Written, Difference
    <3>4. /\ \A j \in DOMAIN entries', k \in LeftPrevious' :
               Rank[entries'[j].path] < Rank[previousEntries[k]]
          /\ \A j \in DOMAIN entries', k \in LeftCurrent' :
               Rank[entries'[j].path] < Rank[currentEntries[k]]
      BY <1>6, <2>3, <2>5, <2>6, <3>2 DEF IInv, InStep, e
    <3>5. InStep'
      BY <1>1, <2>10, <3>4 DEF InStep
    <3> QED BY <3>2, <3>3, <3>5
  <2> QED BY <2>11, <2>12
<1>7. NamesDiffer' <=> NamesDiffer
  BY <1>1 DEF NamesDiffer, Present
<1>8. (Lists(previousEntries, was) /\ Lists(currentEntries, is))'
  BY <1>1 DEF IInv, Lists, Present
<1> QED
  BY <1>1, <1>5, <1>6, <1>7, <1>8 DEF IInv

LEMMA InductiveIInv == IInv /\ [Next]_vars => IInv'
<1> SUFFICES ASSUME IInv, [Next]_vars PROVE IInv'
  OBVIOUS
<1>1. ASSUME UNCHANGED <<manifests, walk>>
      PROVE  /\ (Lists(previousEntries, was) /\ Lists(currentEntries, is))'
             /\ (NamesDiffer' <=> NamesDiffer) /\ (InStep' <=> InStep)
             /\ (Written' <=> Written) /\ (Sorted' <=> Sorted)
             /\ (PreviousLeft' <=> PreviousLeft) /\ (CurrentLeft' <=> CurrentLeft)
  <2>1. (Lists(previousEntries, was) /\ Lists(currentEntries, is))'
    BY <1>1 DEF IInv, Lists, Present, manifests, walk
  <2>2. (NamesDiffer' <=> NamesDiffer) /\ (Sorted' <=> Sorted)
    BY <1>1 DEF NamesDiffer, Present, Sorted, manifests, walk
  <2>3. InStep' <=> InStep
    BY <1>1 DEF InStep, PassedPrevious, PassedCurrent, LeftPrevious, LeftCurrent, manifests, walk
  <2>4. Written' <=> Written
    BY <1>1 DEF Written, Handled, Difference, PassedPrevious, PassedCurrent, manifests, walk
  <2>5. (PreviousLeft' <=> PreviousLeft) /\ (CurrentLeft' <=> CurrentLeft)
    BY <1>1 DEF PreviousLeft, CurrentLeft, manifests, walk
  <2> QED BY <2>1, <2>2, <2>3, <2>4, <2>5
<1>2. CASE Load
  BY <1>1, <1>2 DEF Load, IInv, TypeOK, manifests, walk
<1>3. CASE EndWalk
  BY <1>1, <1>3 DEF EndWalk, IInv, TypeOK, manifests, walk
<1>4. CASE UNCHANGED vars
  BY <1>1, <1>4 DEF vars, IInv, TypeOK, manifests, walk
<1> QED
  BY <1>2, <1>3, <1>4, AddDeletedStep, AddAddedStep, CompareStep DEF Next

LEMMA SpecIInv == Spec => []IInv
<1>1. Init => IInv
  BY InitIInv
<1>2. IInv /\ [Next]_vars => IInv'
  BY InductiveIInv
<1> QED
  BY <1>1, <1>2, PTL DEF Spec

-----------------------------------------------------------------------------
\* Both indices stay within their manifests and one past them.
THEOREM SpecTypeOK == Spec => []TypeOK
<1>1. IInv => TypeOK
  BY DEF IInv
<1> QED
  BY <1>1, SpecIInv, PTL

\* computeCacheDelta returns exactly the difference of the manifests, as long
\* as localeCompare tells their paths apart.
THEOREM SpecDeltaIsDifference == Spec => []DeltaIsDifference
<1>1. IInv => DeltaIsDifference
  <2> SUFFICES ASSUME IInv, phase = "computed", NamesDiffer
               PROVE  {entries[k] : k \in DOMAIN entries} =
                        {Difference(p) : p \in {q \in Path : was[q] # is[q]}}
    BY DEF DeltaIsDifference, Difference
  <2>1. \A p \in Path : was[p] # is[p] => p \in Present(was) \/ p \in Present(is)
    BY DEF Present
  <2>2. PassedPrevious = DOMAIN previousEntries /\ PassedCurrent = DOMAIN currentEntries
    <3>1. /\ previousIndex = Len(previousEntries) + 1 /\ Len(previousEntries) \in Nat
          /\ currentIndex = Len(currentEntries) + 1 /\ Len(currentEntries) \in Nat
          /\ DOMAIN previousEntries = 1 .. Len(previousEntries)
          /\ DOMAIN currentEntries = 1 .. Len(currentEntries)
      BY DEF IInv, TypeOK, PreviousLeft, CurrentLeft
    <3> QED
      BY <3>1 DEF PassedPrevious, PassedCurrent
  <2>3. \A p \in Path : was[p] # is[p] => p \in Handled
    BY <2>1, <2>2 DEF IInv, Lists, Handled
  <2>4. Handled \subseteq Path
    BY <2>2 DEF IInv, TypeOK, Handled
  <2> QED
    BY <2>3, <2>4 DEF IInv, Written
<1> QED
  BY <1>1, SpecIInv, PTL

\* The delta's entries are strictly sorted, under the same condition, so that
\* deserializeCacheDeltaManifest accepts them.
THEOREM SpecDeltaIsReadable == Spec => []DeltaIsReadable
<1>1. IInv => DeltaIsReadable
  BY DEF IInv, Sorted, DeltaIsReadable, StrictlySorted
<1> QED
  BY <1>1, SpecIInv, PTL

-----------------------------------------------------------------------------
\* The package.

\* What the store holds of a worker, damaged or not, has the name the worker
\* gave it, and is what it uploaded unless damaged; from the discovery on
\* there is an artifact of each.
NamedArtifacts ==
  \A w \in Worker :
    (stored[w] # Missing \/ aggregator \notin {"waiting", "failed"}) =>
      /\ stored[w] \in Artifacts
      /\ stored[w].name = ArtifactName(w, identity[w], manifest[w])
      /\ w \notin damaged => stored[w].metadata.identity = identity[w]

\* An accepted package is its worker's, with the worker's cache family and,
\* as far as something tells, its identity; merging starts with all of them.
AcceptedPackages ==
  /\ \A w \in DOMAIN accepted :
       /\ accepted[w].metadata.producer = w
       /\ accepted[w].manifest = manifest[w]
       /\ accepted[w].files = Payloads(manifest[w])
       /\ accepted[w].metadata.payloadEntries = Payloads(manifest[w])
       /\ accepted[w].metadata.identity.family = identity[w].family
       /\ hashed \/ w \notin damaged => accepted[w].metadata.identity = identity[w]
  /\ aggregator = "waiting" => DOMAIN accepted = {}
  /\ aggregator \in {"merge", "cleanup", "succeeded"} => DOMAIN accepted = Worker
  /\ aggregator \in {"cleanup", "succeeded"} => Compatible

\* A worker's directory exists while it stages and uploads.
WorkerDirectories ==
  \A w \in Worker :
    /\ pc[w] = "start" => <<w, w>> \notin directories
    /\ pc[w] \in {"staging", "staged", "uploaded", "unsent"} => <<w, w>> \in directories \ reported
    /\ pc[w] \in {"succeeded", "failed"} => (<<w, w>> \in directories => <<w, w>> \in reported)

AggregatorEnded == aggregator \in {"succeeded", "failed"}
Examining == aggregator \in {"verify", "discard"}

\* The aggregator's directories are those of the packages it holds, until its
\* cleanup, and those whose removal it reported.
AggregatorDirectories ==
  /\ aggregator \in {"waiting", "download", "verify", "discard", "merge", "cleanup"} =>
       \A w \in Worker : <<Aggregator, w>> \notin reported
  /\ ~AggregatorEnded =>
       \A w \in DOMAIN accepted : <<Aggregator, w>> \in directories \ reported
  /\ Examining => current \in Worker \ DOMAIN accepted /\ <<Aggregator, current>> \in directories
  /\ \A w \in Worker :
       <<Aggregator, w>> \in directories =>
         \/ <<Aggregator, w>> \in reported
         \/ ~AggregatorEnded /\ w \in DOMAIN accepted
         \/ Examining /\ w = current

EnvelopeInv ==
  /\ EnvelopeTypeOK /\ NamedArtifacts /\ AcceptedPackages
  /\ WorkerDirectories /\ AggregatorDirectories
-----------------------------------------------------------------------------
\* The payloads of a manifest are the bytes of its changed paths.
LEMMA PayloadFacts ==
  ASSUME NEW m \in Manifest
  PROVE  /\ Changed(m) \subseteq PackagePath
         /\ Payloads(m) \in [Changed(m) -> Bytes]
         /\ Payloads(m) \in UNION {[D -> Bytes] : D \in SUBSET PackagePath}
<1>1. Changed(m) \in SUBSET PackagePath
  BY DEF Changed, PackagePath
<1>2. Payloads(m) \in [Changed(m) -> Bytes]
  BY EnvelopeAssumption DEF Changed, Payloads
<1> QED  BY <1>1, <1>2

LEMMA PackageFacts ==
  ASSUME NEW w \in Worker, NEW i \in Identity, NEW m \in Manifest
  PROVE  /\ Package(w, i, m) \in Artifacts
         /\ Package(w, i, m).name = ArtifactName(w, i, m)
         /\ Package(w, i, m).metadata = Metadata(w, i, m)
         /\ Package(w, i, m).metadata.identity = i
<1>1. Payloads(m) \in UNION {[D -> Bytes] : D \in SUBSET PackagePath}
  BY PayloadFacts
<1>2. /\ ArtifactName(w, i, m) \in Worker \X Family \X Manifest
      /\ Metadata(w, i, m) \in WholeMetadata
  BY DEF ArtifactName, Family, WholeMetadata
<1>3. Metadata(w, i, m).identity = i
  BY DEF Metadata
<1> QED  BY <1>1, <1>2, <1>3 DEF Package, Artifacts

\* Whatever is damaged, an artifact remains one, and keeps its name.
LEMMA DamageFacts ==
  ASSUME EnvelopeInv, NEW w \in Worker, Damage(w)
  PROVE  \E a \in Artifacts :
           /\ a.name = ArtifactName(w, identity[w], manifest[w])
           /\ stored' = [stored EXCEPT ![w] = a]
<1> DEFINE All == {Missing} \cup WholeMetadata \cup (UNION {Altered(x) : x \in WholeMetadata})
           Files == UNION {[D -> Bytes] : D \in SUBSET PackagePath}
           Names == Worker \X Family \X Manifest
           s == stored[w]
<1>1. /\ s \in Artifacts /\ s.name = ArtifactName(w, identity[w], manifest[w])
      /\ manifest[w] \in Manifest /\ \A v \in Worker : identity[v] \in Identity
  BY DEF Damage, EnvelopeInv, EnvelopeTypeOK, NamedArtifacts
<1>2. s \in [name : Names, metadata : All, manifest : Manifest \cup {Missing},
              files : Files, extra : BOOLEAN]
  BY <1>1 DEF Artifacts
<1>3. PICK a \in DamagedForms(w) : stored' = [stored EXCEPT ![w] = a]
  BY DEF Damage
<1>4. \A x \in {Missing} \cup {Metadata(v, identity[v], m) : v \in Worker, m \in Manifest} : x \in All
  BY <1>1 DEF WholeMetadata
<1>5. Altered(PackageOf(w).metadata) \subseteq All
  BY <1>1, PackageFacts DEF PackageOf, WholeMetadata
<1>6. \A f \in {Payloads(m) : m \in Manifest} \cup {[p \in DOMAIN s.files |-> b] : b \in Bytes} :
        f \in Files
  <2>1. \A m \in Manifest : Payloads(m) \in Files
    BY PayloadFacts
  <2>2. ASSUME NEW b \in Bytes PROVE [p \in DOMAIN s.files |-> b] \in Files
    <3>1. DOMAIN s.files \in SUBSET PackagePath
      BY <1>2
    <3> QED  BY <3>1
  <2> QED  BY <2>1, <2>2
<1> HIDE DEF All, Files, Names
<1>7. \/ a = [s EXCEPT !.extra = TRUE]
      \/ \E x \in All : a = [s EXCEPT !.metadata = x]
      \/ \E m \in Manifest \cup {Missing} : a = [s EXCEPT !.manifest = m]
      \/ \E f \in Files : a = [s EXCEPT !.files = f]
  BY <1>4, <1>5, <1>6 DEF DamagedForms
<1>8. /\ a \in [name : Names, metadata : All, manifest : Manifest \cup {Missing},
               files : Files, extra : BOOLEAN]
      /\ a.name = s.name
  BY <1>2, <1>7
<1>9. a \in Artifacts
  BY <1>8 DEF Artifacts, All, Files, Names
<1> QED  BY <1>1, <1>3, <1>8, <1>9

\* A package that is accepted is the one that was staged: its name, which no
\* damage changes, holds the manifest, and the payloads follow from that.  Of
\* its identity the name tells the family.
LEMMA AcceptedFacts ==
  ASSUME NEW w \in Worker, NEW i \in Identity, NEW m \in Manifest, NEW a \in Artifacts,
         a.name = ArtifactName(w, i, m), Verifies(a), a.metadata.producer = w
  PROVE  /\ a.manifest = m /\ a.files = Payloads(m) /\ a.metadata.payloadEntries = Payloads(m)
         /\ a.metadata.identity.family = i.family
<1>1. a.manifest = m /\ a.metadata.identity.family = i.family
  BY DEF Verifies, NameMatches, NameOfMetadata, ArtifactName
<1>2. a.metadata.payloadEntries = Payloads(m) /\ DOMAIN a.files = Changed(m)
  BY <1>1 DEF Verifies, PayloadsMatch, Payloads
<1>3. \A p \in Changed(m) : a.files[p] = Payloads(m)[p]
  BY <1>2 DEF Verifies, PayloadsMatch, Payloads
<1>4. a.files \in [Changed(m) -> Bytes]
  BY <1>2 DEF Artifacts
<1>5. a.files = Payloads(m)
  BY <1>3, <1>4, PayloadFacts
<1> QED  BY <1>1, <1>2, <1>5
-----------------------------------------------------------------------------
SameDirectory(d) ==
  /\ d \in directories' <=> d \in directories
  /\ d \in reported' <=> d \in reported

\* A removal that fails leaves the directory and reports it.
LEMMA RemovalFacts ==
  ASSUME NEW ds, RemoveDirectories(ds)
  PROVE  /\ \A d : d \notin ds => SameDirectory(d)
         /\ \A d \in ds : d \in directories' => d \in reported'
         /\ ds \subseteq directories \ reported /\ reported \subseteq directories
              => reported' \subseteq directories' /\ directories' \subseteq directories
  BY DEF RemoveDirectories, SameDirectory

\* The directories of the workers are not the aggregator's.
LEMMA DirectoriesDiffer ==
  ASSUME NEW v \in Worker, NEW w \in Worker
  PROVE  /\ <<v, v>> # <<Aggregator, w>>
         /\ v # w => <<v, v>> # <<w, w>> /\ <<Aggregator, v>> # <<Aggregator, w>>
  BY EnvelopeAssumption

\* Steps of the workers leave the aggregator's part alone.
LEMMA AggregatorFrame ==
  ASSUME EnvelopeInv, UNCHANGED <<manifest, identity, aggregator, current, hashed, damaged, accepted>>,
         \A w \in Worker : SameDirectory(<<Aggregator, w>>)
  PROVE  AcceptedPackages' /\ AggregatorDirectories'
<1>1. AcceptedPackages'
  BY DEF EnvelopeInv, AcceptedPackages, Compatible
<1>2. DOMAIN accepted \subseteq Worker /\ (Examining => current \in Worker)
  BY DEF EnvelopeInv, EnvelopeTypeOK, AggregatorDirectories
<1>3. AggregatorDirectories'
  BY <1>2 DEF EnvelopeInv, AggregatorDirectories, AggregatorEnded, Examining, SameDirectory
<1> QED  BY <1>1, <1>3

\* Steps of the aggregator leave the workers' part alone.
LEMMA WorkerFrame ==
  ASSUME EnvelopeInv, UNCHANGED pc,
         \A w \in Worker : SameDirectory(<<w, w>>)
  PROVE  WorkerDirectories'
  BY DEF EnvelopeInv, WorkerDirectories, SameDirectory

LEMMA EnvelopeInitInv == EnvelopeInit => EnvelopeInv
<1> SUFFICES ASSUME EnvelopeInit PROVE EnvelopeInv
  OBVIOUS
<1>1. EnvelopeTypeOK
  BY EnvelopeAssumption DEF EnvelopeInit, EnvelopeTypeOK
<1>2. NamedArtifacts /\ AcceptedPackages
  BY DEF EnvelopeInit, NamedArtifacts, AcceptedPackages
<1>3. WorkerDirectories /\ AggregatorDirectories
  BY DEF EnvelopeInit, WorkerDirectories, AggregatorDirectories, AggregatorEnded, Examining
<1> QED  BY <1>1, <1>2, <1>3 DEF EnvelopeInv

-----------------------------------------------------------------------------
LEMMA StartStagingInv ==
  ASSUME EnvelopeInv, NEW w \in Worker, StartStaging(w)
  PROVE  EnvelopeInv'
<1>1. /\ pc[w] = "start" /\ pc' = [pc EXCEPT ![w] = "staging"]
      /\ directories' = directories \cup {<<w, w>>}
      /\ UNCHANGED <<unstaged, staged, reported>>
  BY DEF StartStaging, Goto
<1>2. EnvelopeTypeOK'
  BY <1>1 DEF EnvelopeInv, EnvelopeTypeOK, unstaged
<1>3. NamedArtifacts'
  BY <1>1 DEF EnvelopeInv, NamedArtifacts, unstaged
<1>4. AcceptedPackages' /\ AggregatorDirectories'
  <2>1. \A v \in Worker : SameDirectory(<<Aggregator, v>>)
    BY <1>1, DirectoriesDiffer DEF SameDirectory
  <2> QED  BY <1>1, <2>1, AggregatorFrame DEF unstaged
<1>5. WorkerDirectories'
  <2> SUFFICES ASSUME NEW v \in Worker
               PROVE  /\ pc'[v] = "start" => <<v, v>> \notin directories'
                      /\ pc'[v] \in {"staging", "staged", "uploaded", "unsent"} =>
                           <<v, v>> \in directories' \ reported'
                      /\ pc'[v] \in {"succeeded", "failed"} =>
                           (<<v, v>> \in directories' => <<v, v>> \in reported')
    BY DEF WorkerDirectories
  <2>1. CASE v = w
    <3>1. <<w, w>> \notin reported
      BY <1>1 DEF EnvelopeInv, WorkerDirectories, EnvelopeTypeOK
    <3> QED  BY <1>1, <2>1, <3>1 DEF EnvelopeInv, EnvelopeTypeOK
  <2>2. CASE v # w
    BY <1>1, <2>2, DirectoriesDiffer DEF EnvelopeInv, EnvelopeTypeOK, WorkerDirectories
  <2> QED  BY <2>1, <2>2
<1> QED  BY <1>2, <1>3, <1>4, <1>5 DEF EnvelopeInv

\* Copies, the end of staging and the upload touch no directory.
LEMMA StagingInv ==
  ASSUME EnvelopeInv, NEW w \in Worker,
         (\E p \in PackagePath : CopyPayload(w, p)) \/ FinishStaging(w) \/ Upload(w)
  PROVE  EnvelopeInv'
<1>1. /\ pc[w] \in {"staging", "staged"}
      /\ \E s \in {"staging", "staged", "uploaded", "unsent"} : pc' = [pc EXCEPT ![w] = s]
      /\ UNCHANGED <<manifest, identity, aggregator, current, hashed, damaged, accepted, damages,
                     directories, reported>>
  BY DEF CopyPayload, FinishStaging, Upload, Goto, unstaged, NoDirectoryChanges, EnvelopeInv,
         EnvelopeTypeOK
<1>2. /\ staged' \in [Worker -> SUBSET PackagePath]
      /\ \A v \in Worker : staged'[v] \subseteq Changed(manifest[v])
  <2>1. CASE \E p \in PackagePath : CopyPayload(w, p)
    BY <2>1 DEF CopyPayload, Unstaged, EnvelopeInv, EnvelopeTypeOK
  <2>2. CASE UNCHANGED staged
    BY <2>2 DEF EnvelopeInv, EnvelopeTypeOK
  <2> QED  BY <2>1, <2>2 DEF FinishStaging, Upload
<1>3. UNCHANGED stored \/ stored' = [stored EXCEPT ![w] = PackageOf(w)]
  BY DEF CopyPayload, FinishStaging, Upload, unstaged
<1>4. /\ PackageOf(w) \in Artifacts
      /\ PackageOf(w).name = ArtifactName(w, identity[w], manifest[w])
      /\ PackageOf(w).metadata.identity = identity[w]
      /\ stored \in [Worker -> Artifacts \cup {Missing}]
  BY PackageFacts DEF EnvelopeInv, EnvelopeTypeOK, PackageOf
<1>5. EnvelopeTypeOK'
  <2>1. stored' \in [Worker -> Artifacts \cup {Missing}]
    BY <1>3, <1>4
  <2>2. pc' \in [Worker -> {"start", "staging", "staged", "uploaded", "unsent", "succeeded", "failed"}]
    BY <1>1 DEF EnvelopeInv, EnvelopeTypeOK
  <2> QED  BY <1>1, <1>2, <2>1, <2>2 DEF EnvelopeInv, EnvelopeTypeOK
<1>6. NamedArtifacts'
  BY <1>1, <1>3, <1>4 DEF EnvelopeInv, NamedArtifacts
<1>7. AcceptedPackages' /\ AggregatorDirectories'
  BY <1>1, AggregatorFrame DEF SameDirectory
<1>8. WorkerDirectories'
  BY <1>1 DEF EnvelopeInv, EnvelopeTypeOK, WorkerDirectories
<1> QED  BY <1>5, <1>6, <1>7, <1>8 DEF EnvelopeInv

\* A worker ends and removes its directory.
LEMMA WorkerEndInv ==
  ASSUME EnvelopeInv, NEW w \in Worker, FailStaging(w) \/ FinishUpload(w)
  PROVE  EnvelopeInv'
<1>1. /\ pc[w] \in {"staging", "staged", "uploaded", "unsent"}
      /\ \E s \in {"succeeded", "failed"} : pc' = [pc EXCEPT ![w] = s]
      /\ RemoveDirectories({<<w, w>>})
      /\ UNCHANGED <<manifest, identity, aggregator, current, stored, hashed, damaged,
                     accepted, damages, staged>>
  BY DEF FailStaging, FinishUpload, Goto, unstaged
<1>2. {<<w, w>>} \subseteq directories \ reported /\ reported \subseteq directories
  BY <1>1 DEF EnvelopeInv, WorkerDirectories, EnvelopeTypeOK
<1>3. /\ \A d : d \notin {<<w, w>>} => SameDirectory(d)
      /\ <<w, w>> \in directories' => <<w, w>> \in reported'
      /\ reported' \subseteq directories' /\ directories' \subseteq directories
  BY <1>1, <1>2, RemovalFacts
<1>4. EnvelopeTypeOK'
  BY <1>1, <1>3 DEF EnvelopeInv, EnvelopeTypeOK
<1>5. NamedArtifacts'
  BY <1>1 DEF EnvelopeInv, NamedArtifacts
<1>6. AcceptedPackages' /\ AggregatorDirectories'
  <2>1. \A v \in Worker : SameDirectory(<<Aggregator, v>>)
    BY <1>3, DirectoriesDiffer
  <2> QED  BY <1>1, <2>1, AggregatorFrame
<1>7. WorkerDirectories'
  <2> SUFFICES ASSUME NEW v \in Worker
               PROVE  /\ pc'[v] = "start" => <<v, v>> \notin directories'
                      /\ pc'[v] \in {"staging", "staged", "uploaded", "unsent"} =>
                           <<v, v>> \in directories' \ reported'
                      /\ pc'[v] \in {"succeeded", "failed"} =>
                           (<<v, v>> \in directories' => <<v, v>> \in reported')
    BY DEF WorkerDirectories
  <2>1. CASE v = w
    BY <1>1, <1>3, <2>1 DEF EnvelopeInv, EnvelopeTypeOK
  <2>2. CASE v # w
    <3>1. <<v, v>> # <<w, w>> /\ pc'[v] = pc[v]
      BY <1>1, <2>2 DEF EnvelopeInv, EnvelopeTypeOK
    <3>2. SameDirectory(<<v, v>>)
      BY <1>3, <3>1
    <3> QED  BY <3>1, <3>2 DEF EnvelopeInv, WorkerDirectories, SameDirectory
  <2> QED  BY <2>1, <2>2
<1> QED  BY <1>4, <1>5, <1>6, <1>7 DEF EnvelopeInv

-----------------------------------------------------------------------------
\* The artifacts, from the discovery on.
LEMMA NamedKept ==
  ASSUME EnvelopeInv, UNCHANGED <<manifest, identity, stored, damaged>>, aggregator \notin {"waiting", "failed"}
  PROVE  NamedArtifacts'
  BY DEF EnvelopeInv, NamedArtifacts

LEMMA DiscoverInv == EnvelopeInv /\ Discover => EnvelopeInv'
<1> SUFFICES ASSUME EnvelopeInv, Discover PROVE EnvelopeInv'
  OBVIOUS
<1>1. /\ aggregator = "waiting" /\ aggregator' \in {"download", "failed"}
      /\ aggregator' = "download" => \A w \in Worker : stored[w] # Missing
      /\ UNCHANGED <<manifest, identity, pc, staged, stored, hashed, damaged, damages,
                     current, accepted, directories, reported>>
  BY DEF Discover, unaggregated, NoDirectoryChanges
<1>2. EnvelopeTypeOK'
  BY <1>1 DEF EnvelopeInv, EnvelopeTypeOK
<1>3. NamedArtifacts'
  BY <1>1 DEF EnvelopeInv, NamedArtifacts
<1>4. AcceptedPackages'
  BY <1>1 DEF EnvelopeInv, AcceptedPackages, Compatible
<1>5. WorkerDirectories'
  BY <1>1, WorkerFrame DEF SameDirectory
<1>6. AggregatorDirectories'
  <2>1. DOMAIN accepted = {}
    BY <1>1 DEF EnvelopeInv, AcceptedPackages
  <2> QED
    BY <1>1, <2>1 DEF EnvelopeInv, AggregatorDirectories, AggregatorEnded, Examining
<1> QED  BY <1>2, <1>3, <1>4, <1>5, <1>6 DEF EnvelopeInv

LEMMA DownloadInv ==
  ASSUME EnvelopeInv, NEW w \in Worker, Download(w)
  PROVE  EnvelopeInv'
<1>1. /\ aggregator = "download" /\ w \notin DOMAIN accepted /\ current' = w
      /\ directories' = directories \cup {<<Aggregator, w>>}
      /\ aggregator' \in {"verify", "discard"}
      /\ UNCHANGED <<manifest, identity, pc, staged, stored, hashed, damaged, damages,
                     accepted, reported>>
  BY DEF Download, unaggregated
<1>2. EnvelopeTypeOK'
  BY <1>1 DEF EnvelopeInv, EnvelopeTypeOK
<1>3. NamedArtifacts' /\ AcceptedPackages'
  BY <1>1, NamedKept DEF EnvelopeInv, AcceptedPackages, Compatible
<1>4. WorkerDirectories'
  <2>1. \A v \in Worker : SameDirectory(<<v, v>>)
    BY <1>1, DirectoriesDiffer DEF SameDirectory
  <2> QED  BY <1>1, <2>1, WorkerFrame
<1>5. AggregatorDirectories'
  <2>1. \A v \in Worker : <<Aggregator, v>> = <<Aggregator, w>> => v = w
    OBVIOUS
  <2> QED
    BY <1>1, <2>1 DEF EnvelopeInv, AggregatorDirectories, AggregatorEnded, Examining
<1> QED  BY <1>2, <1>3, <1>4, <1>5 DEF EnvelopeInv

LEMMA AcceptInv == EnvelopeInv /\ Accept => EnvelopeInv'
<1> SUFFICES ASSUME EnvelopeInv, Accept PROVE EnvelopeInv'
  OBVIOUS
<1>1. /\ aggregator = "verify" /\ Accepts(current)
      /\ accepted' = [w \in DOMAIN accepted \cup {current} |->
                       IF w = current THEN stored[w] ELSE accepted[w]]
      /\ aggregator' = IF DOMAIN accepted' = Worker THEN "merge" ELSE "download"
      /\ UNCHANGED <<manifest, identity, pc, staged, stored, hashed, damaged, damages,
                     current, directories, reported>>
  BY DEF Accept, unaggregated, NoDirectoryChanges
<1>2. /\ current \in Worker \ DOMAIN accepted /\ DOMAIN accepted \subseteq Worker
      /\ <<Aggregator, current>> \in directories \ reported
  BY <1>1 DEF EnvelopeInv, AggregatorDirectories, Examining, EnvelopeTypeOK
<1>3. /\ stored[current] \in Artifacts
      /\ stored[current].name = ArtifactName(current, identity[current], manifest[current])
      /\ current \notin damaged => stored[current].metadata.identity = identity[current]
      /\ manifest[current] \in Manifest /\ identity[current] \in Identity
  BY <1>1, <1>2 DEF EnvelopeInv, NamedArtifacts, EnvelopeTypeOK
<1>4. /\ stored[current].metadata.producer = current
      /\ stored[current].manifest = manifest[current]
      /\ stored[current].files = Payloads(manifest[current])
      /\ stored[current].metadata.payloadEntries = Payloads(manifest[current])
      /\ stored[current].metadata.identity.family = identity[current].family
      /\ hashed \/ current \notin damaged => stored[current].metadata.identity = identity[current]
  BY <1>1, <1>2, <1>3, AcceptedFacts DEF Accepts
<1>5. DOMAIN accepted' = DOMAIN accepted \cup {current} /\ aggregator' \in {"merge", "download"}
  BY <1>1
<1>6. EnvelopeTypeOK'
  <2>1. DOMAIN accepted' \subseteq Worker /\ \A w \in DOMAIN accepted' : accepted'[w] \in Artifacts
    <3> HIDE DEF Artifacts
    <3> QED  BY <1>1, <1>2, <1>3, <1>5 DEF EnvelopeInv, EnvelopeTypeOK
  <2> QED  BY <1>1, <1>5, <2>1 DEF EnvelopeInv, EnvelopeTypeOK
<1>7. NamedArtifacts' /\ WorkerDirectories'
  BY <1>1, NamedKept, WorkerFrame DEF SameDirectory
<1>8. AcceptedPackages'
  <2>1. ASSUME NEW w \in DOMAIN accepted'
        PROVE  /\ accepted'[w].metadata.producer = w
               /\ accepted'[w].manifest = manifest[w]
               /\ accepted'[w].files = Payloads(manifest[w])
               /\ accepted'[w].metadata.payloadEntries = Payloads(manifest[w])
               /\ accepted'[w].metadata.identity.family = identity[w].family
               /\ hashed \/ w \notin damaged => accepted'[w].metadata.identity = identity[w]
    <3>1. CASE w = current
      BY <1>1, <1>4, <3>1
    <3>2. CASE w # current
      BY <1>1, <3>2 DEF EnvelopeInv, AcceptedPackages
    <3> QED  BY <3>1, <3>2
  <2>2. aggregator' = "merge" => DOMAIN accepted' = Worker
    BY <1>1
  <2> QED  BY <1>1, <1>5, <2>1, <2>2 DEF AcceptedPackages
<1>9. AggregatorDirectories'
  BY <1>1, <1>2, <1>5 DEF EnvelopeInv, AggregatorDirectories, AggregatorEnded, Examining
<1> QED  BY <1>6, <1>7, <1>8, <1>9 DEF EnvelopeInv

\* A refusal, and the end of merging, move the aggregator on.
LEMMA MoveInv ==
  ASSUME EnvelopeInv, Refuse \/ MergeAndApply
  PROVE  EnvelopeInv'
<1>1. /\ \/ aggregator = "verify" /\ aggregator' = "discard"
         \/ aggregator = "merge" /\ aggregator' \in {"cleanup", "cleanupFailed"}
      /\ UNCHANGED <<manifest, identity, pc, staged, stored, hashed, damaged, damages,
                     current, accepted, directories, reported>>
  BY DEF Refuse, MergeAndApply, unaggregated, NoDirectoryChanges
<1>2. EnvelopeTypeOK'
  BY <1>1 DEF EnvelopeInv, EnvelopeTypeOK
<1>3. NamedArtifacts' /\ WorkerDirectories'
  BY <1>1, NamedKept, WorkerFrame DEF SameDirectory
<1>4. AcceptedPackages'
  <2>1. aggregator' = "cleanup" => DOMAIN accepted = Worker /\ Compatible
    BY <1>1 DEF Refuse, MergeAndApply, EnvelopeInv, AcceptedPackages
  <2> QED  BY <1>1, <2>1 DEF EnvelopeInv, AcceptedPackages, Compatible
<1>5. AggregatorDirectories'
  BY <1>1 DEF EnvelopeInv, AggregatorDirectories, AggregatorEnded, Examining
<1> QED  BY <1>2, <1>3, <1>4, <1>5 DEF EnvelopeInv

LEMMA DiscardDownloadInv == EnvelopeInv /\ DiscardDownload => EnvelopeInv'
<1> SUFFICES ASSUME EnvelopeInv, DiscardDownload PROVE EnvelopeInv'
  OBVIOUS
<1>1. /\ aggregator = "discard" /\ aggregator' = "cleanupFailed"
      /\ RemoveDirectories({<<Aggregator, current>>})
      /\ UNCHANGED <<manifest, identity, pc, staged, stored, hashed, damaged, damages,
                     current, accepted>>
  BY DEF DiscardDownload, unaggregated
<1>2. /\ current \in Worker \ DOMAIN accepted
      /\ {<<Aggregator, current>>} \subseteq directories \ reported /\ reported \subseteq directories
  BY <1>1 DEF EnvelopeInv, AggregatorDirectories, Examining, EnvelopeTypeOK
<1>3. /\ \A d : d \notin {<<Aggregator, current>>} => SameDirectory(d)
      /\ <<Aggregator, current>> \in directories' => <<Aggregator, current>> \in reported'
      /\ reported' \subseteq directories' /\ directories' \subseteq directories
  BY <1>1, <1>2, RemovalFacts
<1>4. EnvelopeTypeOK'
  BY <1>1, <1>3 DEF EnvelopeInv, EnvelopeTypeOK
<1>5. NamedArtifacts' /\ AcceptedPackages'
  BY <1>1, NamedKept DEF EnvelopeInv, AcceptedPackages, Compatible
<1>6. WorkerDirectories'
  <2>1. \A v \in Worker : SameDirectory(<<v, v>>)
    BY <1>2, <1>3, DirectoriesDiffer
  <2> QED  BY <1>1, <2>1, WorkerFrame
<1>7. AggregatorDirectories'
  <2>1. DOMAIN accepted \subseteq Worker
    BY DEF EnvelopeInv, EnvelopeTypeOK
  <2>2. \A v \in Worker : v # current => SameDirectory(<<Aggregator, v>>)
    BY <1>3
  <2>3. \A v \in DOMAIN accepted : <<Aggregator, v>> \in directories' \ reported'
    BY <1>1, <1>2, <2>1, <2>2 DEF EnvelopeInv, AggregatorDirectories, AggregatorEnded, SameDirectory
  <2>4. ASSUME NEW v \in Worker, <<Aggregator, v>> \in directories'
        PROVE  <<Aggregator, v>> \in reported' \/ v \in DOMAIN accepted
    <3>1. CASE v = current
      BY <1>3, <2>4, <3>1
    <3>2. CASE v # current
      BY <1>1, <2>2, <2>4, <3>2
      DEF EnvelopeInv, AggregatorDirectories, AggregatorEnded, SameDirectory
    <3> QED  BY <3>1, <3>2
  <2> QED  BY <1>1, <2>3, <2>4 DEF AggregatorDirectories, AggregatorEnded, Examining
<1> QED  BY <1>4, <1>5, <1>6, <1>7 DEF EnvelopeInv

LEMMA CleanupInv == EnvelopeInv /\ Cleanup => EnvelopeInv'
<1> SUFFICES ASSUME EnvelopeInv, Cleanup PROVE EnvelopeInv'
  OBVIOUS
<1> DEFINE ds == {<<Aggregator, w>> : w \in DOMAIN accepted}
<1>1. /\ \/ aggregator = "cleanup" /\ aggregator' = "succeeded"
         \/ aggregator = "cleanupFailed" /\ aggregator' = "failed"
      /\ RemoveDirectories(ds)
      /\ UNCHANGED <<manifest, identity, pc, staged, stored, hashed, damaged, damages,
                     current, accepted>>
  BY DEF Cleanup, Siblings, unaggregated
<1>2. /\ ds \subseteq directories \ reported /\ reported \subseteq directories
      /\ DOMAIN accepted \subseteq Worker
  BY <1>1 DEF EnvelopeInv, AggregatorDirectories, AggregatorEnded, EnvelopeTypeOK
<1> HIDE DEF ds
<1>3. /\ \A d : d \notin ds => SameDirectory(d)
      /\ \A d \in ds : d \in directories' => d \in reported'
      /\ reported' \subseteq directories' /\ directories' \subseteq directories
  BY <1>1, <1>2, RemovalFacts
<1>4. EnvelopeTypeOK'
  BY <1>1, <1>3 DEF EnvelopeInv, EnvelopeTypeOK
<1>5. NamedArtifacts' /\ AcceptedPackages'
  BY <1>1, NamedKept DEF EnvelopeInv, AcceptedPackages, Compatible
<1>6. WorkerDirectories'
  <2>1. \A v \in Worker : <<v, v>> \notin ds
    BY <1>2, DirectoriesDiffer DEF ds
  <2>2. \A v \in Worker : SameDirectory(<<v, v>>)
    BY <1>3, <2>1
  <2> QED  BY <1>1, <2>2, WorkerFrame
<1>7. AggregatorDirectories'
  <2>1. ASSUME NEW v \in Worker, <<Aggregator, v>> \in directories'
        PROVE  <<Aggregator, v>> \in reported'
    <3>1. CASE v \in DOMAIN accepted
      BY <1>3, <2>1, <3>1 DEF ds
    <3>2. CASE v \notin DOMAIN accepted
      <4>1. <<Aggregator, v>> \notin ds
        BY <3>2 DEF ds
      <4>2. SameDirectory(<<Aggregator, v>>)
        BY <1>3, <4>1
      <4> QED
        BY <1>1, <2>1, <3>2, <4>2 DEF EnvelopeInv, AggregatorDirectories, Examining, SameDirectory
    <3> QED  BY <3>1, <3>2
  <2> QED  BY <1>1, <2>1 DEF AggregatorDirectories, AggregatorEnded, Examining
<1> QED  BY <1>4, <1>5, <1>6, <1>7 DEF EnvelopeInv

LEMMA DamageInv ==
  ASSUME EnvelopeInv, NEW w \in Worker, Damage(w)
  PROVE  EnvelopeInv'
<1>1. PICK a \in Artifacts : /\ a.name = ArtifactName(w, identity[w], manifest[w])
                             /\ stored' = [stored EXCEPT ![w] = a]
  BY DamageFacts
<1>2. /\ aggregator = "download" /\ damages < MaxDamage /\ damages' = damages + 1
      /\ damaged' = damaged \cup {w}
      /\ UNCHANGED <<manifest, identity, pc, aggregator, current, staged, hashed,
                     accepted, directories, reported>>
  BY DEF Damage, NoDirectoryChanges
<1>3. EnvelopeTypeOK'
  <2> HIDE DEF Artifacts
  <2>1. stored' \in [Worker -> Artifacts \cup {Missing}]
    BY <1>1 DEF EnvelopeInv, EnvelopeTypeOK
  <2> QED  BY <1>2, <2>1, EnvelopeAssumption DEF EnvelopeInv, EnvelopeTypeOK
<1>4. NamedArtifacts'
  <2> HIDE DEF Artifacts
  <2>1. \A v \in Worker : stored'[v] = IF v = w THEN a ELSE stored[v]
    BY <1>1 DEF EnvelopeInv, EnvelopeTypeOK
  <2> QED  BY <1>1, <1>2, <2>1 DEF EnvelopeInv, NamedArtifacts
<1>5. AcceptedPackages'
  BY <1>2 DEF EnvelopeInv, AcceptedPackages
<1>6. AggregatorDirectories' /\ WorkerDirectories'
  BY <1>2, WorkerFrame
  DEF SameDirectory, EnvelopeInv, AggregatorDirectories, AggregatorEnded, Examining
<1> QED  BY <1>3, <1>4, <1>5, <1>6 DEF EnvelopeInv

-----------------------------------------------------------------------------
LEMMA EnvelopeNextInv == EnvelopeInv /\ [EnvelopeNext]_envelopeVars => EnvelopeInv'
<1> SUFFICES ASSUME EnvelopeInv, [EnvelopeNext]_envelopeVars PROVE EnvelopeInv'
  OBVIOUS
<1>1. ASSUME NEW w \in Worker,
             \/ StartStaging(w) \/ FinishStaging(w) \/ FailStaging(w) \/ Upload(w) \/ FinishUpload(w)
             \/ \E p \in PackagePath : CopyPayload(w, p)
             \/ Download(w) \/ Damage(w)
      PROVE  EnvelopeInv'
  BY <1>1, StartStagingInv, StagingInv, WorkerEndInv, DownloadInv, DamageInv
<1>2. CASE Discover \/ Accept \/ Refuse \/ DiscardDownload \/ MergeAndApply \/ Cleanup
  BY <1>2, DiscoverInv, AcceptInv, MoveInv, DiscardDownloadInv, CleanupInv
<1>3. CASE UNCHANGED envelopeVars
  BY <1>3
  DEF envelopeVars, EnvelopeInv, EnvelopeTypeOK, NamedArtifacts, AcceptedPackages, WorkerDirectories,
      AggregatorDirectories, AggregatorEnded, Examining, Compatible
<1> QED  BY <1>1, <1>2, <1>3 DEF EnvelopeNext

\* The inductive invariant of staging, transfer and verification (stageDeltaPackage,
\* downloadDeltaPackage).
THEOREM SpecEnvelopeInv == EnvelopeSpec => []EnvelopeInv
<1>1. EnvelopeInit => EnvelopeInv
  BY EnvelopeInitInv
<1>2. EnvelopeInv /\ [EnvelopeNext]_envelopeVars => EnvelopeInv'
  BY EnvelopeNextInv
<1> QED  BY <1>1, <1>2, PTL DEF EnvelopeSpec

\* What prepare accepts of a worker is what the worker staged, and nothing is
\* applied across families, nor across identities as far as artifacts are
\* undamaged or the store reports hashes (verifyExtractedDeltaArtifactPackage,
\* assertCompatibleDependentDeltaArtifacts).
THEOREM SpecAcceptedIsStaged == EnvelopeSpec => []AcceptedIsStaged
<1>1. EnvelopeInv => AcceptedIsStaged
  BY DEF EnvelopeInv, AcceptedPackages, Compatible, AcceptedIsStaged
<1> QED  BY <1>1, SpecEnvelopeInv, PTL

\* A job that ended has left no temporary directory it did not report
\* (cleanupDownloadedPackages, the finally clauses of staging and upload).
THEOREM SpecNoDirectoryLeft == EnvelopeSpec => []NoDirectoryLeft
<1>1. EnvelopeInv => NoDirectoryLeft
  BY DEF EnvelopeInv, WorkerDirectories, AggregatorDirectories, AggregatorEnded, Examining,
         NoDirectoryLeft
<1> QED  BY <1>1, SpecEnvelopeInv, PTL
=============================================================================
