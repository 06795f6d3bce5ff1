-------------------------- MODULE WrapperProvision --------------------------
(***************************************************************************)
(* provisionWrapperJars of src/src/build-tool/gradle/wrapper/download.ts:  *)
(* for every wrapper properties file, one after the other, the published   *)
(* checksum and signature are fetched side by side, a jar that does not    *)
(* have that checksum is fetched, verified and put in place, and checksum  *)
(* and signature are retained next to it.  Downloads are shared between    *)
(* wrappers of one Gradle version and retried; any step may fail, and the  *)
(* process may die; a later run of the action finds what is left.          *)
(*                                                                         *)
(* A checksum stands for the bytes it is of, and so does a signature.      *)
(* Size limits, delays, headers and the reason of a failure are left out,  *)
(* and so are downloads and signatures nobody waits for any more.          *)
(***************************************************************************)
EXTENDS Integers

CONSTANTS
  Count,         \* targeted wrapper properties files
  Version,       \* Gradle versions
  Bytes,         \* what a jar may consist of
  Signed,        \* bytes that a pinned Gradle key signed
  Attempts,      \* retryAttempts
  None,          \* no file, no content
  Malformed,     \* a response that is no checksum or no signature
  Partial,       \* a file that is being written
  NotAFile,      \* a link or a directory
  Unsupported,   \* a distribution URL that names no version
  MaxRuns        \* bound: runs of the action in one workspace

ASSUME ProvisionAssumption ==
  /\ Count \in Nat \ {0} /\ Attempts \in Nat \ {0} /\ MaxRuns \in Nat \ {0}
  /\ Signed \subseteq Bytes
  /\ {None, Malformed, Partial, NotAFile} \cap Bytes = {}
  /\ None \notin {Malformed, Partial, NotAFile} /\ Partial \notin {Malformed, NotAFile}
  /\ Unsupported \notin Version

Wrapper == 1 .. Count
Kind == {"jar", "sha256", "asc"}
Metadata == {"sha256", "asc"}
Run == 1 .. MaxRuns

VARIABLES
  version,       \* the version each properties file names
  run,
  current,       \* the wrapper at hand
  phase,
  fetches,       \* the downloads of this run, by kind and version
  verified,      \* contents to be put in place for the current wrapper, by kind
  stage,         \* of each of their placements
  files,         \* what is at each path
  temporaries,   \* temporary files that exist, with their content
  before,        \* history: the jars the first run found
  digests        \* history: checksums that were downloaded, by version

workspace == <<files, temporaries>>
history == <<before, digests>>
vars == <<version, run, current, phase, fetches, verified, stage, workspace, history>>

Running == phase \in {"plan", "published", "existing", "jar", "place", "retain"}
NoFetches == [r \in Kind \X Version |-> [state |-> "none", attempt |-> 0, content |-> None]]
NothingVerified == [k \in Kind |-> None]
NoPlacement == [k \in Kind |-> "idle"]

Init ==
  /\ version \in [Wrapper -> Version \cup {Unsupported}]
  /\ run = 1 /\ current = 1 /\ phase = "plan"
  /\ fetches = NoFetches /\ verified = NothingVerified /\ stage = NoPlacement
  /\ before \in [Wrapper -> Bytes \cup {None, NotAFile}]
  /\ files = [w \in Wrapper |-> [k \in Kind |-> IF k = "jar" THEN before[w] ELSE None]]
  /\ temporaries = [t \in {} |-> None] /\ digests = {}

-----------------------------------------------------------------------------
\* Downloads, which several wrappers of one version share.
Fetch(k) == fetches[<<k, version[current]>>]

\* getOrCreate
Started(kinds) ==
  [r \in Kind \X Version |->
    IF r[1] \in kinds /\ r[2] = version[current] /\ fetches[r].state = "none"
    THEN [state |-> "request", attempt |-> 1, content |-> None] ELSE fetches[r]]

Answer(r, state, content) ==
  fetches' = [fetches EXCEPT ![r] = [state |-> state, attempt |-> 0, content |-> content]]
NotFetching == UNCHANGED <<version, run, current, phase, verified, stage, workspace, before>>

\* Mutant of MoreAttempts: one attempt too many.
MutMoreAttempts(r) == fetches[r].attempt <= Attempts
MoreAttempts(r) == fetches[r].attempt < Attempts

\* One attempt of fetchWithRetries: a response, a 404, or an error, a timeout
\* or another status, after which there may be another attempt.
Request(r) ==
  /\ Running /\ fetches[r].state = "request"
  /\ \/ Answer(r, "body", None)
     \/ Answer(r, "failed", None)
     \/ /\ MoreAttempts(r)
        /\ fetches' = [fetches EXCEPT ![r].attempt = @ + 1]
  /\ UNCHANGED digests /\ NotFetching

\* readBodyWithSizeLimit and the check of its form: nothing of it is retried.
Body(r) ==
  /\ Running /\ fetches[r].state = "body"
  /\ \/ Answer(r, "failed", None) /\ UNCHANGED digests
     \/ \E c \in Bytes \cup {Malformed} :
          /\ r[1] = "jar" => c \in Bytes
          /\ IF c = Malformed THEN Answer(r, "failed", None)
             ELSE Answer(r, "ok", c)
          /\ digests' = IF r[1] = "sha256" /\ c # Malformed
                        THEN digests \cup {<<r[2], c>>} ELSE digests
  /\ NotFetching

-----------------------------------------------------------------------------
\* The loop over the wrappers.
Goto(p) == phase' = p /\ UNCHANGED <<version, run, workspace, history>>
unplaced == <<current, verified, stage>>

\* An error ends the run; downloads are forgotten.
Fail == Goto("failed") /\ fetches' = NoFetches /\ UNCHANGED unplaced

\* deriveWrapperDownloadPlan, and the start of both downloads.
Plan ==
  /\ phase = "plan"
  /\ IF version[current] = Unsupported THEN Fail
     ELSE Goto("published") /\ fetches' = Started(Metadata) /\ UNCHANGED unplaced

\* Promise.all rejects with the first failure.
AwaitPublished ==
  /\ phase = "published"
  /\ \/ /\ \A k \in Metadata : Fetch(k).state = "ok"
        /\ Goto("existing") /\ UNCHANGED <<fetches, unplaced>>
     \/ (\E k \in Metadata : Fetch(k).state = "failed") /\ Fail

\* verifyGradleDetachedSignature
Verifies(bytes, signature) == signature = bytes /\ bytes \in Signed

Begin(kinds, contents) ==
  /\ verified' = contents
  /\ stage' = [k \in Kind |-> IF k \in kinds THEN "open" ELSE "idle"]
  /\ UNCHANGED current

Contents(jar) ==
  [k \in Kind |-> IF k = "jar" THEN jar ELSE Fetch(k).content]

\* readExistingWrapperJarIfExpectedSha256: a jar with the published checksum
\* is verified and kept; one with another checksum is downloaded, and so is one
\* lstat fails for; what is no regular file, cannot be read or does not have
\* the signature fails.
Existing ==
  LET jar == files[current]["jar"]
  IN /\ phase = "existing"
     /\ \/ jar # None /\ Fail
        \/ /\ jar = Fetch("sha256").content /\ Verifies(jar, Fetch("asc").content)
           /\ Goto("retain") /\ Begin(Metadata, Contents(jar)) /\ UNCHANGED fetches
        \/ Goto("jar") /\ fetches' = Started({"jar"}) /\ UNCHANGED unplaced

\* The downloaded jar is put in place when checksum and signature are its; the
\* download, either check or GnuPG itself may fail.
AwaitJar ==
  LET jar == Fetch("jar").content
  IN /\ phase = "jar"
     /\ \/ /\ Fetch("jar").state = "ok"
           /\ jar = Fetch("sha256").content /\ Verifies(jar, Fetch("asc").content)
           /\ Goto("place") /\ Begin({"jar"}, Contents(jar)) /\ UNCHANGED fetches
        \/ Fetch("jar").state \in {"ok", "failed"} /\ Fail

AwaitPlaced ==
  /\ phase = "place"
  /\ \/ /\ stage["jar"] = "placed"
        /\ Goto("retain") /\ Begin(Metadata, verified) /\ UNCHANGED fetches
     \/ stage["jar"] = "failed" /\ Fail

\* Mutant of AllRetained: the first of the two files is waited for.
MutAllRetained == \E k \in Metadata : stage[k] = "placed"
AllRetained == \A k \in Metadata : stage[k] = "placed"

AwaitRetained ==
  /\ phase = "retain"
  /\ \/ /\ AllRetained
        /\ IF current = Count
           THEN Goto("done") /\ UNCHANGED unplaced
           ELSE /\ Goto("plan") /\ current' = current + 1
                /\ verified' = NothingVerified /\ stage' = NoPlacement
        /\ UNCHANGED fetches
     \/ (\E k \in Metadata : stage[k] = "failed") /\ Fail

-----------------------------------------------------------------------------
\* placeFileAtomically; a placement that is under way when its sibling fails
\* goes on.
Temporary(k) == <<run, current, k>>
Written(k, content) ==
  temporaries' = [t \in DOMAIN temporaries \cup {Temporary(k)} |->
                   IF t = Temporary(k) THEN content ELSE temporaries[t]]
Removed(k) == temporaries' = [t \in DOMAIN temporaries \ {Temporary(k)} |-> temporaries[t]]
Stage(k, from, to) ==
  /\ stage[k] = from /\ stage' = [stage EXCEPT ![k] = to]
  /\ UNCHANGED <<version, run, current, phase, fetches, verified, history>>

\* The directory cannot be made, or the file is created, empty.
OpenTemporary(k) ==
  \/ Stage(k, "open", "failed") /\ UNCHANGED workspace
  \/ Stage(k, "open", "write") /\ Written(k, Partial) /\ UNCHANGED files

WriteTemporary(k) ==
  \/ Stage(k, "write", "rename") /\ Written(k, verified[k]) /\ UNCHANGED files
  \/ Stage(k, "write", "undo") /\ UNCHANGED workspace

\* Mutant of MayReplace: the rename does not wait for the write.
MutMayReplace(k) == stage[k] \in {"write", "rename"}
MayReplace(k) == stage[k] = "rename"

\* A rename moves what the temporary file holds, is refused because of the
\* target, or fails; a refusal removes the target and tries again.
Rename(k) ==
  \/ /\ MayReplace(k) \/ stage[k] = "again"
     /\ Stage(k, stage[k], "tidy")
     /\ files' = [files EXCEPT ![current][k] = temporaries[Temporary(k)]]
     /\ Removed(k)
  \/ Stage(k, "rename", "replace") /\ UNCHANGED workspace
  \/ (Stage(k, "rename", "undo") \/ Stage(k, "again", "undo")) /\ UNCHANGED workspace

RemoveTarget(k) ==
  \/ /\ Stage(k, "replace", "again")
     /\ files' = [files EXCEPT ![current][k] = None] /\ UNCHANGED temporaries
  \/ Stage(k, "replace", "undo") /\ UNCHANGED workspace

\* The finally clause, whose own failure fails the placement.
TidyUp(k) ==
  \/ /\ Stage(k, "tidy", "placed") \/ Stage(k, "undo", "failed")
     /\ Removed(k) /\ UNCHANGED files
  \/ /\ Stage(k, "tidy", "failed") \/ Stage(k, "undo", "failed")
     /\ UNCHANGED workspace

-----------------------------------------------------------------------------
\* The process dies.
Crash ==
  /\ phase \notin {"crashed", "done"}
  /\ Goto("crashed") /\ UNCHANGED current
  /\ fetches' = NoFetches /\ verified' = NothingVerified /\ stage' = NoPlacement

\* Another run in the same workspace, once nothing of the last is under way.
RunAgain ==
  /\ ~Running /\ run < MaxRuns
  /\ \A k \in Kind : stage[k] \in {"idle", "placed", "failed"}
  /\ run' = run + 1 /\ current' = 1 /\ phase' = "plan"
  /\ fetches' = NoFetches /\ verified' = NothingVerified /\ stage' = NoPlacement
  /\ UNCHANGED <<version, workspace, history>>

Next ==
  \/ \E r \in Kind \X Version : Request(r) \/ Body(r)
  \/ Plan \/ AwaitPublished \/ Existing \/ AwaitJar \/ AwaitPlaced \/ AwaitRetained
  \/ \E k \in Kind : OpenTemporary(k) \/ WriteTemporary(k) \/ Rename(k) \/ RemoveTarget(k) \/ TidyUp(k)
  \/ Crash \/ RunAgain

Spec == Init /\ [][Next]_vars
-----------------------------------------------------------------------------
Content == Bytes \cup {None, NotAFile}

\* Types: a shared download stays within its attempts.
TypeOK ==
  /\ version \in [Wrapper -> Version \cup {Unsupported}]
  /\ run \in Run /\ current \in Wrapper
  /\ phase \in {"plan", "published", "existing", "jar", "place", "retain",
                "done", "failed", "crashed"}
  /\ fetches \in [Kind \X Version ->
       [state : {"none", "request", "body", "ok", "failed"}, attempt : 0 .. Attempts,
        content : Bytes \cup {None}]]
  /\ verified \in [Kind -> Bytes \cup {None}]
  /\ stage \in [Kind -> {"idle", "open", "write", "rename", "replace", "again", "tidy", "undo",
                         "placed", "failed"}]
  /\ files \in [Wrapper -> [Kind -> Content]]
  /\ DOMAIN temporaries \subseteq Run \X Wrapper \X Kind
  /\ \A t \in DOMAIN temporaries : temporaries[t] \in Bytes \cup {Partial}
  /\ before \in [Wrapper -> Content] /\ digests \subseteq Version \X Bytes

\* docs/architecture/wrapper-provisioning.md:84-85: a partially written jar is
\* never visible.  A jar that was not there before is a signed one whose
\* checksum was downloaded for the version of its properties file, whatever
\* failed or died, also between removing the target and renaming again.
OnlyVerifiedIsPlaced ==
  \A w \in Wrapper :
    LET jar == files[w]["jar"]
    IN jar \notin {before[w], None} => jar \in Signed /\ <<version[w], jar>> \in digests

\* A run that succeeds leaves every wrapper with a signed jar, the checksum
\* and the signature of that jar next to it, and none of its temporary files,
\* whatever earlier runs left.
SuccessMeansRetained ==
  phase = "done" =>
    /\ \A w \in Wrapper :
         /\ files[w]["jar"] \in Signed
         /\ \A k \in Metadata : files[w][k] = files[w]["jar"]
    /\ \A t \in DOMAIN temporaries : t[1] # run
=============================================================================
