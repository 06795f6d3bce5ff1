----------------------- MODULE WrapperProvisionProofs -----------------------
(***************************************************************************)
(* Proofs about WrapperProvision, for any wrappers, versions, bytes,       *)
(* attempts and runs.  What is put in place was verified against the       *)
(* published checksum when its phase was entered (Verified), a temporary   *)
(* file that is renamed holds it (Staged), and of this run's temporary     *)
(* files only those of unfinished placements exist (NoStray).              *)
(***************************************************************************)
EXTENDS WrapperProvision, TLAPS

Idle(k) == stage[k] = "idle"

\* Contents of downloads; a checksum that is known was downloaded.
Downloads ==
  /\ \A r \in Kind \X Version : fetches[r].state = "ok" => fetches[r].content \in Bytes
  /\ \A v \in Version : fetches[<<"sha256", v>>].state = "ok"
                          => <<v, fetches[<<"sha256", v>>].content>> \in digests

\* What each phase has established.
Phases ==
  /\ phase \in {"published", "existing", "jar"} => version[current] \in Version
  /\ phase \in {"existing", "jar"} => \A k \in Metadata : Fetch(k).state = "ok"
  /\ phase \in {"plan", "published", "existing", "jar"} => \A k \in Kind : Idle(k)
  /\ phase = "place" => \A k \in Metadata : Idle(k)
  /\ phase = "retain" => Idle("jar") /\ files[current]["jar"] = verified["jar"]
  /\ phase \in {"place", "retain"} => \A k \in Kind : verified[k] = verified["jar"]
  /\ phase = "done" => \A k \in Kind : stage[k] \in {"idle", "placed"}

Verified ==
  /\ verified["jar"] # None =>
       verified["jar"] \in Signed /\ <<version[current], verified["jar"]>> \in digests
  /\ phase \in {"place", "retain"} => verified["jar"] # None

Staged ==
  \A k \in Kind :
    /\ ~Idle(k) => verified[k] \in Bytes
    /\ stage[k] \in {"rename", "replace", "again"} =>
         Temporary(k) \in DOMAIN temporaries /\ temporaries[Temporary(k)] = verified[k]
    /\ stage[k] \in {"tidy", "placed"} => files[current][k] = verified[k]

Retained(w) ==
  /\ files[w]["jar"] \in Signed
  /\ \A k \in Metadata : files[w][k] = files[w]["jar"]

EarlierRetained == \A w \in Wrapper : w < current \/ phase = "done" => Retained(w)

NoStray ==
  \A t \in DOMAIN temporaries :
    /\ t[1] <= run
    /\ t[1] = run /\ (Running \/ phase = "done") =>
         t[2] = current /\ stage[t[3]] \notin {"idle", "placed"}

IInv ==
  /\ TypeOK /\ Downloads /\ Phases /\ Verified /\ Staged
  /\ EarlierRetained /\ NoStray /\ OnlyVerifiedIsPlaced

-----------------------------------------------------------------------------
LEMMA RunsAndWrappers == 1 \in Run /\ 1 \in Wrapper /\ Run \subseteq Nat /\ Wrapper \subseteq Nat
BY ProvisionAssumption DEF Run, Wrapper

LEMMA NoFetchesType ==
  /\ NoFetches \in [Kind \X Version ->
       [state : {"none", "request", "body", "ok", "failed"}, attempt : 0 .. Attempts,
        content : Bytes \cup {None}]]
  /\ \A r \in Kind \X Version : NoFetches[r].state = "none"
BY ProvisionAssumption DEF NoFetches

LEMMA InitIInv == Init => IInv
<1> SUFFICES ASSUME Init PROVE IInv
  OBVIOUS
<1>1. TypeOK
  BY ProvisionAssumption, RunsAndWrappers, NoFetchesType
  DEF Init, TypeOK, Content, NothingVerified, NoPlacement
<1>2. Downloads
  BY NoFetchesType DEF Init, Downloads, Kind
<1>3. Phases /\ Verified /\ Staged
  BY DEF Init, Phases, Verified, Staged, Idle, NoPlacement, NothingVerified, Kind, Metadata
<1>4. EarlierRetained /\ NoStray
  BY RunsAndWrappers DEF Init, EarlierRetained, NoStray, Wrapper
<1>5. OnlyVerifiedIsPlaced
  BY DEF Init, OnlyVerifiedIsPlaced, Kind
<1> QED
  BY <1>1, <1>2, <1>3, <1>4, <1>5 DEF IInv

-----------------------------------------------------------------------------
FetchType ==
  [state : {"none", "request", "body", "ok", "failed"}, attempt : 0 .. Attempts,
   content : Bytes \cup {None}]

\* What a step of a download does: it answers it, or starts its next attempt.
DownloadStep(r) ==
  /\ fetches[r].state \in {"request", "body"}
  /\ fetches' \in [Kind \X Version -> FetchType]
  /\ \A s \in Kind \X Version : s # r => fetches'[s] = fetches[s]
  /\ fetches'[r].state = "ok" =>
       /\ fetches'[r].content \in Bytes
       /\ r[1] = "sha256" => <<r[2], fetches'[r].content>> \in digests'
  /\ digests \subseteq digests' /\ digests' \subseteq Version \X Bytes
  /\ UNCHANGED <<version, run, current, phase, verified, stage, files, temporaries, before>>

LEMMA AnswerType ==
  ASSUME fetches \in [Kind \X Version -> FetchType], NEW r \in Kind \X Version,
         NEW state \in {"ok", "body", "failed"}, NEW content \in Bytes \cup {None},
         Answer(r, state, content)
  PROVE  /\ fetches' \in [Kind \X Version -> FetchType]
         /\ \A s \in Kind \X Version : s # r => fetches'[s] = fetches[s]
         /\ fetches'[r].state = state /\ fetches'[r].content = content
BY ProvisionAssumption DEF Answer, FetchType

LEMMA Downloading ==
  ASSUME IInv, NEW r \in Kind \X Version, Request(r) \/ Body(r)
  PROVE  DownloadStep(r)
<1>1. fetches \in [Kind \X Version -> FetchType]
  BY DEF IInv, TypeOK, FetchType
<1>2. digests \subseteq Version \X Bytes /\ r[2] \in Version
  BY DEF IInv, TypeOK
<1>3. Malformed \notin Bytes
  BY ProvisionAssumption
<1>4. CASE Request(r)
  <2>1. CASE Answer(r, "body", None) \/ Answer(r, "failed", None)
    BY <1>1, <1>2, <1>4, <2>1, AnswerType DEF Request, NotFetching, workspace, DownloadStep
  <2>2. CASE MoreAttempts(r) /\ fetches' = [fetches EXCEPT ![r].attempt = @ + 1]
    BY <1>1, <1>2, <1>4, <2>2, ProvisionAssumption
    DEF Request, MoreAttempts, NotFetching, workspace, DownloadStep, FetchType
  <2> QED
    BY <1>4, <2>1, <2>2 DEF Request
<1>5. CASE Body(r)
  <2>1. CASE Answer(r, "failed", None) /\ UNCHANGED digests
    BY <1>1, <1>2, <1>5, <2>1, AnswerType DEF Body, NotFetching, workspace, DownloadStep
  <2>2. ASSUME NEW c \in Bytes \cup {Malformed},
               IF c = Malformed THEN Answer(r, "failed", None) ELSE Answer(r, "ok", c),
               digests' = IF r[1] = "sha256" /\ c # Malformed
                          THEN digests \cup {<<r[2], c>>} ELSE digests
        PROVE  DownloadStep(r)
    BY <1>1, <1>2, <1>3, <1>5, <2>2, AnswerType DEF Body, NotFetching, workspace, DownloadStep
  <2> QED
    BY <1>5, <2>1, <2>2 DEF Body
<1> QED
  BY <1>4, <1>5

LEMMA DownloadKeepsIInv ==
  ASSUME IInv, NEW r \in Kind \X Version, DownloadStep(r)
  PROVE  IInv'
<1>1. TypeOK'
  BY DEF IInv, TypeOK, DownloadStep, FetchType
<1>2. Downloads'
  BY DEF IInv, Downloads, DownloadStep, Kind
<1>3. \A k \in Kind : version[current] \in Version /\ Fetch(k).state = "ok" => Fetch(k)'.state = "ok"
  BY DEF DownloadStep, Fetch
<1>4. Phases'
  BY <1>3 DEF IInv, Phases, DownloadStep, Idle, Kind, Metadata
<1>5. Verified' /\ Staged' /\ EarlierRetained' /\ NoStray' /\ OnlyVerifiedIsPlaced'
  BY DEF IInv, Verified, Staged, Idle, Temporary, EarlierRetained, Retained, NoStray, Running,
         OnlyVerifiedIsPlaced, DownloadStep
<1> QED
  BY <1>1, <1>2, <1>4, <1>5 DEF IInv
-----------------------------------------------------------------------------
\* Downloads that are forgotten or started leave what is known of the others.
LEMMA ForgetKeepsDownloads ==
  ASSUME fetches' = NoFetches
  PROVE  fetches' \in [Kind \X Version -> FetchType] /\ Downloads'
BY NoFetchesType DEF FetchType, Downloads, Kind

LEMMA StartKeepsDownloads ==
  ASSUME IInv, NEW kinds, fetches' = Started(kinds), UNCHANGED <<version, current, digests>>
  PROVE  /\ fetches' \in [Kind \X Version -> FetchType] /\ Downloads'
         /\ \A k \in Kind : version[current] \in Version /\ Fetch(k).state = "ok" => Fetch(k)' = Fetch(k)
<1>1. fetches \in [Kind \X Version -> FetchType]
  BY DEF IInv, TypeOK, FetchType
<1>2. [state |-> "request", attempt |-> 1, content |-> None] \in FetchType
  BY ProvisionAssumption DEF FetchType
<1>3. fetches' \in [Kind \X Version -> FetchType]
  BY <1>1, <1>2 DEF Started
<1>4. \A r \in Kind \X Version : \/ fetches'[r] = fetches[r]
                                 \/ fetches[r].state = "none" /\ fetches'[r].state = "request"
  BY DEF Started
<1>5. Downloads'
  BY <1>4 DEF IInv, Downloads, Kind
<1> QED
  BY <1>3, <1>4, <1>5 DEF Fetch

\* A run that failed promises nothing but what it put in place.
LEMMA FailKeepsIInv ==
  ASSUME IInv, Fail
  PROVE  IInv'
<1>1. fetches' \in [Kind \X Version -> FetchType] /\ Downloads'
  BY ForgetKeepsDownloads DEF Fail
<1>2. phase' = "failed" /\ UNCHANGED <<version, run, files, temporaries, before, digests, current, verified, stage>>
  BY DEF Fail, Goto, unplaced, workspace, history
<1>3. TypeOK'
  BY <1>1, <1>2 DEF IInv, TypeOK, FetchType
<1>4. Phases' /\ Verified' /\ Staged'
  BY <1>2 DEF IInv, Phases, Verified, Staged, Idle, Temporary
<1>5. EarlierRetained' /\ NoStray' /\ OnlyVerifiedIsPlaced'
  BY <1>2 DEF IInv, EarlierRetained, Retained, NoStray, Running, OnlyVerifiedIsPlaced
<1> QED
  BY <1>1, <1>3, <1>4, <1>5 DEF IInv

\* A phase in which nothing is put in place is followed by another one.
LEMMA WaitKeepsIInv ==
  ASSUME IInv, NEW p \in {"published", "existing", "jar"}, Goto(p), UNCHANGED unplaced,
         phase \in {"plan", "published", "existing"}, version[current] \in Version,
         fetches' \in [Kind \X Version -> FetchType], Downloads',
         p # "published" => \A k \in Metadata : Fetch(k)'.state = "ok"
  PROVE  IInv'
<1>1. phase' = p /\ UNCHANGED <<version, run, files, temporaries, before, digests, current, verified, stage>>
  BY DEF Goto, unplaced, workspace, history
<1>2. TypeOK'
  BY <1>1 DEF IInv, TypeOK, FetchType
<1>3. Phases' /\ Verified' /\ Staged'
  BY <1>1 DEF IInv, Phases, Verified, Staged, Idle, Temporary
<1>4. EarlierRetained' /\ NoStray' /\ OnlyVerifiedIsPlaced'
  BY <1>1 DEF IInv, EarlierRetained, Retained, NoStray, Running, OnlyVerifiedIsPlaced
<1> QED
  BY <1>2, <1>3, <1>4 DEF IInv

LEMMA PlanKeepsIInv ==
  ASSUME IInv, Plan
  PROVE  IInv'
<1>1. CASE version[current] = Unsupported
  BY <1>1, FailKeepsIInv DEF Plan
<1>2. CASE version[current] # Unsupported
  <2>1. version[current] \in Version
    BY <1>2 DEF IInv, TypeOK
  <2>2. UNCHANGED <<version, current, digests>>
    BY <1>2 DEF Plan, Goto, unplaced, history
  <2>3. fetches' \in [Kind \X Version -> FetchType] /\ Downloads'
    BY <1>2, <2>2, StartKeepsDownloads DEF Plan
  <2> QED
    BY <1>2, <2>1, <2>3, WaitKeepsIInv DEF Plan
<1> QED
  BY <1>1, <1>2

LEMMA UnchangedDownloads ==
  ASSUME IInv, UNCHANGED <<fetches, digests>>
  PROVE  fetches' \in [Kind \X Version -> FetchType] /\ Downloads'
BY DEF IInv, TypeOK, Downloads, FetchType

LEMMA AwaitPublishedKeepsIInv ==
  ASSUME IInv, AwaitPublished
  PROVE  IInv'
<1>1. CASE Fail
  BY <1>1, FailKeepsIInv
<1>2. CASE (\A k \in Metadata : Fetch(k).state = "ok") /\ Goto("existing") /\ UNCHANGED <<fetches, unplaced>>
  <2>1. UNCHANGED <<fetches, version, current, digests>>
    BY <1>2 DEF Goto, unplaced, history
  <2>2. \A k \in Metadata : Fetch(k)'.state = "ok"
    BY <1>2, <2>1 DEF Fetch
  <2>3. version[current] \in Version
    BY DEF AwaitPublished, IInv, Phases
  <2> QED
    BY <1>2, <2>1, <2>2, <2>3, UnchangedDownloads, WaitKeepsIInv DEF AwaitPublished
<1> QED
  BY <1>1, <1>2 DEF AwaitPublished

\* Contents that were verified for the current wrapper.
Vouched(contents) ==
  /\ contents \in [Kind -> Bytes]
  /\ \A k \in Kind : contents[k] = contents["jar"]
  /\ contents["jar"] \in Signed /\ <<version[current], contents["jar"]>> \in digests

LEMMA VerifiedIsVouched ==
  ASSUME IInv, phase \in {"existing", "jar"}, NEW jar,
         jar = Fetch("sha256").content, Verifies(jar, Fetch("asc").content)
  PROVE  Vouched(Contents(jar))
BY ProvisionAssumption DEF IInv, Phases, Downloads, Fetch, Metadata, Kind, Verifies, Contents, Vouched

\* Nothing of this run is left when nothing is under way.
LEMMA NothingLeft ==
  ASSUME IInv, Running, \A k \in Kind : stage[k] \in {"idle", "placed"}
  PROVE  \A t \in DOMAIN temporaries : t[1] <= run /\ t[1] # run
BY DEF IInv, NoStray, TypeOK

\* Placements begin, of the jar, or of the metadata of a jar that is there.
LEMMA BeginKeepsIInv ==
  ASSUME IInv, Running, NEW kinds, NEW p, NEW contents, Vouched(contents),
         \A k \in Kind : stage[k] \in {"idle", "placed"},
         \/ p = "place" /\ kinds = {"jar"}
         \/ p = "retain" /\ kinds = Metadata /\ files[current]["jar"] = contents["jar"],
         Goto(p), Begin(kinds, contents), UNCHANGED fetches
  PROVE  IInv'
<1>1. /\ phase' = p /\ verified' = contents
      /\ stage' = [k \in Kind |-> IF k \in kinds THEN "open" ELSE "idle"]
      /\ UNCHANGED <<version, run, files, temporaries, before, digests, current, fetches>>
  BY DEF Goto, Begin, workspace, history
<1>2. TypeOK'
  BY <1>1 DEF IInv, TypeOK, Vouched
<1>3. Downloads'
  BY <1>1 DEF IInv, Downloads
<1>4. contents["jar"] # None
  BY ProvisionAssumption DEF Vouched
<1>5. Phases' /\ Verified'
  BY <1>1, <1>4 DEF Phases, Verified, Vouched, Idle, Kind, Metadata
<1>6. Staged'
  BY <1>1 DEF Staged, Vouched, Idle
<1>7. NoStray'
  BY <1>1, NothingLeft DEF NoStray
<1>8. EarlierRetained' /\ OnlyVerifiedIsPlaced'
  BY <1>1 DEF IInv, EarlierRetained, Retained, OnlyVerifiedIsPlaced, Running
<1> QED
  BY <1>2, <1>3, <1>5, <1>6, <1>7, <1>8 DEF IInv

LEMMA ExistingKeepsIInv ==
  ASSUME IInv, Existing
  PROVE  IInv'
<1> DEFINE jar == files[current]["jar"]
<1>1. CASE Fail
  BY <1>1, FailKeepsIInv
<1>2. CASE /\ jar = Fetch("sha256").content /\ Verifies(jar, Fetch("asc").content)
           /\ Goto("retain") /\ Begin(Metadata, Contents(jar)) /\ UNCHANGED fetches
  <2>1. Vouched(Contents(jar)) /\ Contents(jar)["jar"] = jar
    BY <1>2, VerifiedIsVouched DEF Existing, Contents, Kind
  <2>2. Running /\ \A k \in Kind : stage[k] \in {"idle", "placed"}
    BY DEF Existing, Running, IInv, Phases, Idle
  <2> QED
    BY <1>2, <2>1, <2>2, BeginKeepsIInv
<1>3. CASE Goto("jar") /\ fetches' = Started({"jar"}) /\ UNCHANGED unplaced
  <2>1. UNCHANGED <<version, current, digests>>
    BY <1>3 DEF Goto, unplaced, history
  <2>2. version[current] \in Version /\ \A k \in Metadata : Fetch(k).state = "ok"
    BY DEF Existing, IInv, Phases
  <2>3. /\ fetches' \in [Kind \X Version -> FetchType] /\ Downloads'
        /\ \A k \in Metadata : Fetch(k)'.state = "ok"
    BY <1>3, <2>1, <2>2, StartKeepsDownloads DEF Metadata, Kind
  <2> QED
    BY <1>3, <2>2, <2>3, WaitKeepsIInv DEF Existing
<1> QED
  BY <1>1, <1>2, <1>3 DEF Existing

LEMMA AwaitJarKeepsIInv ==
  ASSUME IInv, AwaitJar
  PROVE  IInv'
<1> DEFINE jar == Fetch("jar").content
<1>1. CASE Fail
  BY <1>1, FailKeepsIInv
<1>2. CASE /\ jar = Fetch("sha256").content /\ Verifies(jar, Fetch("asc").content)
           /\ Goto("place") /\ Begin({"jar"}, Contents(jar)) /\ UNCHANGED fetches
  <2>1. Vouched(Contents(jar))
    BY <1>2, VerifiedIsVouched DEF AwaitJar
  <2>2. Running /\ \A k \in Kind : stage[k] \in {"idle", "placed"}
    BY DEF AwaitJar, Running, IInv, Phases, Idle
  <2> QED
    BY <1>2, <2>1, <2>2, BeginKeepsIInv
<1> QED
  BY <1>1, <1>2 DEF AwaitJar

LEMMA AwaitPlacedKeepsIInv ==
  ASSUME IInv, AwaitPlaced
  PROVE  IInv'
<1>1. CASE Fail
  BY <1>1, FailKeepsIInv
<1>2. CASE stage["jar"] = "placed" /\ Goto("retain") /\ Begin(Metadata, verified) /\ UNCHANGED fetches
  <2>1. verified["jar"] \in Signed /\ <<version[current], verified["jar"]>> \in digests
    BY DEF AwaitPlaced, IInv, Verified
  <2>2. \A k \in Kind : verified[k] = verified["jar"]
    BY DEF AwaitPlaced, IInv, Phases
  <2>3. Vouched(verified)
    BY <2>1, <2>2, ProvisionAssumption DEF IInv, TypeOK, Vouched
  <2>4. Running /\ \A k \in Kind : stage[k] \in {"idle", "placed"}
    BY <1>2 DEF AwaitPlaced, Running, IInv, Phases, Idle, Kind, Metadata
  <2>5. files[current]["jar"] = verified["jar"]
    BY <1>2 DEF IInv, Staged, Kind
  <2> QED
    BY <1>2, <2>3, <2>4, <2>5, BeginKeepsIInv
<1> QED
  BY <1>1, <1>2 DEF AwaitPlaced

\* A wrapper is left only when its three files agree.
LEMMA AwaitRetainedKeepsIInv ==
  ASSUME IInv, AwaitRetained
  PROVE  IInv'
<1>1. CASE Fail
  BY <1>1, FailKeepsIInv
<1>2. CASE AllRetained /\ ~Fail
  <2>1. \A k \in Kind : stage[k] \in {"idle", "placed"}
    BY <1>2 DEF AwaitRetained, IInv, Phases, Idle, AllRetained, Kind, Metadata
  <2>2. files[current]["jar"] = verified["jar"] /\ \A k \in Kind : verified[k] = verified["jar"]
    BY DEF AwaitRetained, IInv, Phases
  <2>3. \A k \in Metadata : files[current][k] = verified["jar"]
    BY <1>2, <2>2 DEF IInv, Staged, AllRetained, Metadata, Kind
  <2>4. Retained(current)
    BY <2>2, <2>3 DEF AwaitRetained, IInv, Verified, Retained
  <2>5. \A w \in Wrapper : w <= current => Retained(w)
    <3> SUFFICES ASSUME NEW w \in Wrapper, w <= current PROVE Retained(w)
      OBVIOUS
    <3>1. w < current \/ w = current
      BY RunsAndWrappers DEF IInv, TypeOK
    <3> QED
      BY <2>4, <3>1 DEF IInv, EarlierRetained
  <2>6. \A t \in DOMAIN temporaries : t[1] <= run /\ t[1] # run
    <3>1. Running
      BY DEF AwaitRetained, Running
    <3> QED
      BY <2>1, <3>1, NothingLeft
  <2>7. CASE current = Count /\ Goto("done") /\ UNCHANGED <<unplaced, fetches>>
    <3>1. phase' = "done" /\ UNCHANGED <<version, run, files, temporaries, before, digests, current,
                                         verified, stage, fetches>>
      BY <2>7 DEF Goto, unplaced, workspace, history
    <3>2. TypeOK' /\ Downloads'
      BY <3>1 DEF IInv, TypeOK, Downloads
    <3>6. Phases'
      BY <2>1, <3>1 DEF Phases
    <3>7. Verified' /\ Staged'
      BY <3>1 DEF IInv, Verified, Staged, Idle, Temporary
    <3>3. \A w \in Wrapper : Retained(w)
      BY <2>5, <2>7, ProvisionAssumption DEF Wrapper
    <3>4. EarlierRetained'
      BY <3>1, <3>3 DEF EarlierRetained, Retained
    <3>5. NoStray' /\ OnlyVerifiedIsPlaced'
      BY <2>6, <3>1 DEF IInv, NoStray, OnlyVerifiedIsPlaced
    <3> QED
      BY <3>2, <3>4, <3>5, <3>6, <3>7 DEF IInv
  <2>8. CASE /\ current # Count /\ Goto("plan") /\ current' = current + 1
             /\ verified' = NothingVerified /\ stage' = NoPlacement /\ UNCHANGED fetches
    <3>1. phase' = "plan" /\ UNCHANGED <<version, run, files, temporaries, before, digests, fetches>>
      BY <2>8 DEF Goto, workspace, history
    <3>2. current' \in Wrapper
      BY <2>8, ProvisionAssumption DEF IInv, TypeOK, Wrapper
    <3>3. TypeOK' /\ Downloads'
      BY <2>8, <3>1, <3>2 DEF IInv, TypeOK, Downloads, NothingVerified, NoPlacement
    <3>4. Phases' /\ Verified' /\ Staged'
      BY <2>8, <3>1 DEF Phases, Verified, Staged, Idle, NothingVerified, NoPlacement, Kind
    <3>5. EarlierRetained'
      BY <2>5, <2>8, <3>1, RunsAndWrappers DEF IInv, TypeOK, EarlierRetained, Retained
    <3>6. NoStray' /\ OnlyVerifiedIsPlaced'
      BY <2>6, <3>1 DEF IInv, NoStray, OnlyVerifiedIsPlaced
    <3> QED
      BY <3>3, <3>4, <3>5, <3>6 DEF IInv
  <2> QED
    BY <1>2, <2>7, <2>8 DEF AwaitRetained
<1> QED
  BY <1>1, <1>2 DEF AwaitRetained

-----------------------------------------------------------------------------
LEMMA CrashKeepsIInv ==
  ASSUME IInv, Crash
  PROVE  IInv'
<1>1. /\ phase' = "crashed" /\ UNCHANGED <<version, run, files, temporaries, before, digests, current>>
      /\ fetches' = NoFetches /\ verified' = NothingVerified /\ stage' = NoPlacement
      /\ phase # "done"
  BY DEF Crash, Goto, workspace, history
<1>2. fetches' \in [Kind \X Version -> FetchType] /\ Downloads'
  BY <1>1, ForgetKeepsDownloads
<1>3. TypeOK'
  BY <1>1, <1>2 DEF IInv, TypeOK, FetchType, NothingVerified, NoPlacement
<1>4. Phases' /\ Verified' /\ Staged'
  BY <1>1 DEF Phases, Verified, Staged, Idle, NothingVerified, NoPlacement, Kind
<1>5. EarlierRetained' /\ NoStray' /\ OnlyVerifiedIsPlaced'
  BY <1>1 DEF IInv, EarlierRetained, Retained, NoStray, Running, OnlyVerifiedIsPlaced
<1> QED
  BY <1>2, <1>3, <1>4, <1>5 DEF IInv

LEMMA RunAgainKeepsIInv ==
  ASSUME IInv, RunAgain
  PROVE  IInv'
<1>1. /\ run' = run + 1 /\ current' = 1 /\ phase' = "plan" /\ run < MaxRuns
      /\ fetches' = NoFetches /\ verified' = NothingVerified /\ stage' = NoPlacement
      /\ UNCHANGED <<version, files, temporaries, before, digests>>
  BY DEF RunAgain, workspace, history
<1>2. fetches' \in [Kind \X Version -> FetchType] /\ Downloads'
  BY <1>1, ForgetKeepsDownloads
<1>3. run' \in Run /\ current' \in Wrapper
  BY <1>1, ProvisionAssumption DEF IInv, TypeOK, Run, Wrapper
<1>4. TypeOK'
  BY <1>1, <1>2, <1>3 DEF IInv, TypeOK, FetchType, NothingVerified, NoPlacement
<1>5. Phases' /\ Verified' /\ Staged'
  BY <1>1 DEF Phases, Verified, Staged, Idle, NothingVerified, NoPlacement, Kind
<1>6. EarlierRetained' /\ OnlyVerifiedIsPlaced'
  BY <1>1 DEF IInv, EarlierRetained, OnlyVerifiedIsPlaced, Wrapper
<1>7. \A t \in DOMAIN temporaries : t[1] \in Nat /\ t[1] <= run /\ run \in Nat
  BY RunsAndWrappers DEF IInv, TypeOK, NoStray
<1>8. NoStray'
  BY <1>1, <1>7 DEF NoStray
<1> QED
  BY <1>2, <1>4, <1>5, <1>6, <1>8 DEF IInv

-----------------------------------------------------------------------------
\* A step of the placement of k: what it may do to files and temporary files.
PlacementStep(k, from, to) ==
  /\ Stage(k, from, to)
  /\ from \in {"open", "write", "rename", "replace", "again", "tidy", "undo"}
  /\ to \in {"write", "rename", "replace", "again", "tidy", "undo", "placed", "failed"}
  /\ \/ files' = files
     \/ \E c \in {None, verified[k]} : files' = [files EXCEPT ![current][k] = c]
  /\ DOMAIN temporaries' \subseteq DOMAIN temporaries \cup {Temporary(k)}
  /\ \A t \in DOMAIN temporaries' : temporaries'[t] \in Bytes \cup {Partial}
  /\ \A t \in DOMAIN temporaries \ {Temporary(k)} :
       t \in DOMAIN temporaries' /\ temporaries'[t] = temporaries[t]
  /\ to \in {"rename", "replace", "again"} =>
       Temporary(k) \in DOMAIN temporaries' /\ temporaries'[Temporary(k)] = verified[k]
  /\ to = "placed" => Temporary(k) \notin DOMAIN temporaries'
  /\ to \in {"tidy", "placed"} => files'[current][k] = verified[k]

LEMMA PlacementKeepsIInv ==
  ASSUME IInv, NEW k \in Kind, NEW from, NEW to, PlacementStep(k, from, to)
  PROVE  IInv'
<1>1. /\ stage[k] = from /\ stage' = [stage EXCEPT ![k] = to] /\ stage[k] \notin {"idle", "placed"}
      /\ UNCHANGED <<version, run, current, phase, fetches, verified, before, digests>>
  BY DEF PlacementStep, Stage, history
<1>2. /\ stage'[k] = to /\ to # "idle" /\ DOMAIN stage' = Kind
      /\ \A j \in Kind \ {k} : stage'[j] = stage[j]
  BY <1>1 DEF PlacementStep, IInv, TypeOK
<1>3. verified[k] \in Bytes
  BY <1>1 DEF IInv, Staged, Idle
<1>4. /\ files' \in [Wrapper -> [Kind -> Content]]
      /\ \A w \in Wrapper, j \in Kind :
           w # current \/ j # k => files'[w][j] = files[w][j]
      /\ files'[current][k] \in {files[current][k], None, verified[k]}
  <2>1. files \in [Wrapper -> [Kind -> Content]] /\ current \in Wrapper /\ None \in Content /\ verified[k] \in Content
    BY <1>3 DEF IInv, TypeOK, Content
  <2>2. CASE files' = files
    BY <2>1, <2>2
  <2>3. ASSUME NEW c \in {None, verified[k]}, files' = [files EXCEPT ![current][k] = c]
        PROVE  /\ files' \in [Wrapper -> [Kind -> Content]]
               /\ \A w \in Wrapper, j \in Kind :
                    w # current \/ j # k => files'[w][j] = files[w][j]
               /\ files'[current][k] = c
    BY <2>1, <2>3
  <2> QED
    BY <2>2, <2>3 DEF PlacementStep
<1>5. Temporary(k) \in Run \X Wrapper \X Kind
  BY DEF IInv, TypeOK, Temporary
<1>6. /\ phase \notin {"plan", "published", "existing", "jar", "done"}
      /\ phase = "place" => k = "jar"
      /\ phase = "retain" => k # "jar"
  BY <1>1 DEF IInv, Phases, Idle, Kind, Metadata
<1>7. TypeOK'
  BY <1>1, <1>4, <1>5 DEF PlacementStep, IInv, TypeOK
<1>8. Downloads' /\ Verified'
  BY <1>1 DEF IInv, Downloads, Verified
<1>9. Phases'
  <2>1. phase = "place" => \A j \in Metadata : stage'[j] = "idle"
    BY <1>2, <1>6 DEF IInv, Phases, Idle, Kind, Metadata
  <2>2. phase = "retain" => stage'["jar"] = "idle" /\ files'[current]["jar"] = verified["jar"]
    BY <1>2, <1>4, <1>6 DEF IInv, TypeOK, Phases, Idle, Kind
  <2> QED
    BY <1>1, <1>6, <2>1, <2>2 DEF IInv, Phases, Idle
<1>10. Staged'
  <2> SUFFICES ASSUME NEW j \in Kind
               PROVE  /\ stage'[j] # "idle" => verified[j] \in Bytes
                      /\ stage'[j] \in {"rename", "replace", "again"} =>
                           Temporary(j) \in DOMAIN temporaries' /\ temporaries'[Temporary(j)] = verified[j]
                      /\ stage'[j] \in {"tidy", "placed"} => files'[current][j] = verified[j]
    BY <1>1 DEF Staged, Idle, Temporary
  <2>1. CASE j = k
    BY <1>2, <1>3, <2>1 DEF PlacementStep
  <2>2. CASE j # k
    <3>1. Temporary(j) # Temporary(k)
      BY <2>2 DEF Temporary
    <3>2. files'[current][j] = files[current][j]
      BY <1>4, <2>2 DEF IInv, TypeOK
    <3> QED
      BY <1>2, <2>2, <3>1, <3>2 DEF PlacementStep, IInv, Staged, Idle
  <2> QED
    BY <2>1, <2>2
<1>11. EarlierRetained'
  <2>1. \A w \in Wrapper : w < current => w # current
    BY RunsAndWrappers DEF IInv, TypeOK
  <2> QED
    BY <1>1, <1>4, <1>6, <2>1 DEF IInv, EarlierRetained, Retained, Metadata, Kind
<1>12. NoStray'
  <2> SUFFICES ASSUME NEW t \in DOMAIN temporaries'
               PROVE  /\ t[1] <= run
                      /\ t[1] = run /\ (Running \/ phase = "done") =>
                           t[2] = current /\ stage'[t[3]] \notin {"idle", "placed"}
    BY <1>1 DEF NoStray, Running
  <2>1. CASE t = Temporary(k)
    BY <1>1, <1>2, <2>1, RunsAndWrappers DEF PlacementStep, Temporary, IInv, TypeOK
  <2>2. CASE t # Temporary(k)
    <3>1. t \in DOMAIN temporaries /\ t \in Run \X Wrapper \X Kind
      BY <2>2 DEF PlacementStep, IInv, TypeOK
    <3>2. t[1] = run /\ t[2] = current => t[3] # k
      BY <2>2, <3>1 DEF Temporary
    <3> QED
      BY <1>2, <3>1, <3>2 DEF IInv, NoStray
  <2> QED
    BY <2>1, <2>2
<1>13. OnlyVerifiedIsPlaced'
  <2>1. k = "jar" => verified[k] \in Signed /\ <<version[current], verified[k]>> \in digests
    BY <1>3, ProvisionAssumption DEF IInv, Verified
  <2> SUFFICES ASSUME NEW w \in Wrapper, files'[w]["jar"] \notin {before[w], None}
               PROVE  files'[w]["jar"] \in Signed /\ <<version[w], files'[w]["jar"]>> \in digests
    BY <1>1 DEF OnlyVerifiedIsPlaced
  <2>2. CASE files'[w]["jar"] = files[w]["jar"]
    BY <2>2 DEF IInv, OnlyVerifiedIsPlaced
  <2>3. CASE files'[w]["jar"] # files[w]["jar"]
    <3>1. w = current /\ k = "jar"
      BY <1>4, <2>3 DEF Kind
    <3> QED
      BY <1>4, <2>1, <2>3, <3>1
  <2> QED
    BY <2>2, <2>3
<1> QED
  BY <1>7, <1>8, <1>9, <1>10, <1>11, <1>12, <1>13 DEF IInv

LEMMA OpenTemporaryKeepsIInv ==
  ASSUME IInv, NEW k \in Kind, OpenTemporary(k)
  PROVE  IInv'
<1>0. \A t \in DOMAIN temporaries : temporaries[t] \in Bytes \cup {Partial}
  BY DEF IInv, TypeOK
<1>1. CASE Stage(k, "open", "failed") /\ UNCHANGED workspace
  BY <1>0, <1>1, PlacementKeepsIInv DEF workspace, PlacementStep
<1>2. CASE Stage(k, "open", "write") /\ Written(k, Partial) /\ UNCHANGED files
  <2>1. PlacementStep(k, "open", "write")
    BY <1>0, <1>2 DEF PlacementStep, Written
  <2> QED
    BY <2>1, PlacementKeepsIInv
<1> QED
  BY <1>1, <1>2 DEF OpenTemporary

LEMMA WriteTemporaryKeepsIInv ==
  ASSUME IInv, NEW k \in Kind, WriteTemporary(k)
  PROVE  IInv'
<1>0. \A t \in DOMAIN temporaries : temporaries[t] \in Bytes \cup {Partial}
  BY DEF IInv, TypeOK
<1>1. CASE Stage(k, "write", "rename") /\ Written(k, verified[k]) /\ UNCHANGED files
  <2>1. verified[k] \in Bytes
    BY <1>1 DEF IInv, Staged, Idle, Stage
  <2>2. PlacementStep(k, "write", "rename")
    BY <1>0, <1>1, <2>1 DEF PlacementStep, Written
  <2> QED
    BY <2>2, PlacementKeepsIInv
<1>2. CASE Stage(k, "write", "undo") /\ UNCHANGED workspace
  BY <1>0, <1>2, PlacementKeepsIInv DEF workspace, PlacementStep
<1> QED
  BY <1>1, <1>2 DEF WriteTemporary

LEMMA RenameKeepsIInv ==
  ASSUME IInv, NEW k \in Kind, Rename(k)
  PROVE  IInv'
<1>0. \A t \in DOMAIN temporaries : temporaries[t] \in Bytes \cup {Partial}
  BY DEF IInv, TypeOK
<1>1. CASE /\ MayReplace(k) \/ stage[k] = "again"
           /\ Stage(k, stage[k], "tidy")
           /\ files' = [files EXCEPT ![current][k] = temporaries[Temporary(k)]]
           /\ Removed(k)
  <2>1. stage[k] \in {"rename", "again"}
    BY <1>1 DEF MayReplace
  <2>2. temporaries[Temporary(k)] = verified[k]
    BY <2>1 DEF IInv, Staged
  <2>3. files' = [files EXCEPT ![current][k] = verified[k]] /\ files'[current][k] = verified[k]
    BY <1>1, <2>2 DEF IInv, TypeOK
  <2>4. PlacementStep(k, stage[k], "tidy")
    BY <1>0, <1>1, <2>1, <2>3 DEF PlacementStep, Removed
  <2> QED
    BY <2>4, PlacementKeepsIInv
<1>2. CASE Stage(k, "rename", "replace") /\ UNCHANGED workspace
  <2>1. Temporary(k) \in DOMAIN temporaries /\ temporaries[Temporary(k)] = verified[k]
    BY <1>2 DEF IInv, Staged, Stage
  <2> QED
    BY <1>0, <1>2, <2>1, PlacementKeepsIInv DEF workspace, PlacementStep
<1>3. CASE Stage(k, "rename", "undo") /\ UNCHANGED workspace
  BY <1>0, <1>3, PlacementKeepsIInv DEF workspace, PlacementStep
<1>4. CASE Stage(k, "again", "undo") /\ UNCHANGED workspace
  BY <1>0, <1>4, PlacementKeepsIInv DEF workspace, PlacementStep
<1> QED
  BY <1>1, <1>2, <1>3, <1>4 DEF Rename

LEMMA RemoveTargetKeepsIInv ==
  ASSUME IInv, NEW k \in Kind, RemoveTarget(k)
  PROVE  IInv'
<1>0. \A t \in DOMAIN temporaries : temporaries[t] \in Bytes \cup {Partial}
  BY DEF IInv, TypeOK
<1>1. CASE /\ Stage(k, "replace", "again")
           /\ files' = [files EXCEPT ![current][k] = None] /\ UNCHANGED temporaries
  <2>1. Temporary(k) \in DOMAIN temporaries /\ temporaries[Temporary(k)] = verified[k]
    BY <1>1 DEF IInv, Staged, Stage
  <2>2. PlacementStep(k, "replace", "again")
    BY <1>0, <1>1, <2>1 DEF PlacementStep
  <2> QED
    BY <2>2, PlacementKeepsIInv
<1>2. CASE Stage(k, "replace", "undo") /\ UNCHANGED workspace
  BY <1>0, <1>2, PlacementKeepsIInv DEF workspace, PlacementStep
<1> QED
  BY <1>1, <1>2 DEF RemoveTarget

LEMMA TidyUpKeepsIInv ==
  ASSUME IInv, NEW k \in Kind, TidyUp(k)
  PROVE  IInv'
<1>0. \A t \in DOMAIN temporaries : temporaries[t] \in Bytes \cup {Partial}
  BY DEF IInv, TypeOK
<1>1. CASE Stage(k, "tidy", "placed") /\ Removed(k) /\ UNCHANGED files
  <2>1. files[current][k] = verified[k]
    BY <1>1 DEF IInv, Staged, Stage
  <2>2. PlacementStep(k, "tidy", "placed")
    BY <1>0, <1>1, <2>1 DEF PlacementStep, Removed, Stage
  <2> QED
    BY <2>2, PlacementKeepsIInv
<1>2. CASE Stage(k, "undo", "failed") /\ Removed(k) /\ UNCHANGED files
  <2>1. PlacementStep(k, "undo", "failed")
    BY <1>0, <1>2 DEF PlacementStep, Removed
  <2> QED
    BY <2>1, PlacementKeepsIInv
<1>3. CASE Stage(k, "tidy", "failed") /\ UNCHANGED workspace
  BY <1>0, <1>3, PlacementKeepsIInv DEF workspace, PlacementStep
<1>4. CASE Stage(k, "undo", "failed") /\ UNCHANGED workspace
  BY <1>0, <1>4, PlacementKeepsIInv DEF workspace, PlacementStep
<1> QED
  BY <1>1, <1>2, <1>3, <1>4 DEF TidyUp

-----------------------------------------------------------------------------
LEMMA NextKeepsIInv == IInv /\ [Next]_vars => IInv'
<1> SUFFICES ASSUME IInv, [Next]_vars PROVE IInv'
  OBVIOUS
<1>1. ASSUME NEW r \in Kind \X Version, Request(r) \/ Body(r) PROVE IInv'
  BY <1>1, Downloading, DownloadKeepsIInv
<1>2. CASE Plan \/ AwaitPublished \/ Existing
  BY <1>2, PlanKeepsIInv, AwaitPublishedKeepsIInv, ExistingKeepsIInv
<1>3. CASE AwaitJar \/ AwaitPlaced \/ AwaitRetained
  BY <1>3, AwaitJarKeepsIInv, AwaitPlacedKeepsIInv, AwaitRetainedKeepsIInv
<1>4. ASSUME NEW k \in Kind,
             OpenTemporary(k) \/ WriteTemporary(k) \/ Rename(k) \/ RemoveTarget(k) \/ TidyUp(k)
      PROVE  IInv'
  BY <1>4, OpenTemporaryKeepsIInv, WriteTemporaryKeepsIInv, RenameKeepsIInv, RemoveTargetKeepsIInv,
     TidyUpKeepsIInv
<1>5. CASE Crash \/ RunAgain
  BY <1>5, CrashKeepsIInv, RunAgainKeepsIInv
<1>6. CASE UNCHANGED vars
  BY <1>6
  DEF vars, workspace, history, IInv, TypeOK, Downloads, Phases, Fetch, Verified, Staged, Idle, Temporary,
      EarlierRetained, Retained, NoStray, Running, OnlyVerifiedIsPlaced
<1> QED
  BY <1>1, <1>2, <1>3, <1>4, <1>5, <1>6 DEF Next

LEMMA SpecIInv == Spec => []IInv
BY InitIInv, NextKeepsIInv, PTL DEF Spec

\* The state of downloads, placements and files keeps its type, for any number
\* of wrappers, versions, attempts and runs.
THEOREM SpecTypeOK == Spec => []TypeOK
<1>1. IInv => TypeOK
  BY DEF IInv
<1> QED
  BY <1>1, SpecIInv, PTL

\* A jar that was not there before has the checksum downloaded for its version
\* and is signed, whatever step of placeFileAtomically failed or died.
THEOREM SpecOnlyVerifiedIsPlaced == Spec => []OnlyVerifiedIsPlaced
<1>1. IInv => OnlyVerifiedIsPlaced
  BY DEF IInv
<1> QED
  BY <1>1, SpecIInv, PTL

\* Success of provisionWrapperJars means that every wrapper has a signed jar,
\* checksum and signature of that jar, and no temporary file of this run.
THEOREM SpecSuccessMeansRetained == Spec => []SuccessMeansRetained
<1>1. ASSUME IInv, phase = "done" PROVE \A t \in DOMAIN temporaries : t[1] # run
  <2>1. \A k \in Kind : stage[k] \in {"idle", "placed"}
    BY <1>1 DEF IInv, Phases
  <2>2. \A t \in DOMAIN temporaries : t[3] \in Kind
    BY <1>1 DEF IInv, TypeOK
  <2> QED
    BY <1>1, <2>1, <2>2 DEF IInv, NoStray
<1>2. IInv => SuccessMeansRetained
  BY <1>1 DEF IInv, EarlierRetained, Retained, SuccessMeansRetained
<1> QED
  BY <1>2, SpecIInv, PTL

=============================================================================
