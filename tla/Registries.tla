------------------------------ MODULE Registries ------------------------------
(***************************************************************************)
(* The registry clients of internal/adapter/registry: how the local and    *)
(* the git registry choose a version, and the HTTP client with its         *)
(* retries, its back-off and the archives it extracts.  One client makes   *)
(* one call after the other; the server, the network and the context do    *)
(* what they like.  Names, URLs, headers and JSON fields are left out.     *)
(***************************************************************************)
EXTENDS Versions

CONSTANTS
  Listings,     \* what a local directory or a repository's tags may list
  Constraints,  \* the constraints Resolve is called with
  Retries,      \* values of maxRetries
  Files,        \* names of files in archives
  Archives,     \* the archives a server may send
  MaxFile,      \* maxFileSize
  MaxTotal      \* maxTotalSize

\* Anything but a file is a directory or of a type that extractTarGz skips.  The
\* name of a file may lead out of the directory.
Outside == "outside"
Entry == [type : {"file", "other"}, name : Files \cup {Outside}, size : Nat \ {0}]

ASSUME RegistriesAssumption ==
  /\ \A l \in Listings : l \in Seq(Text)
  /\ Constraints \subseteq Constraint
  /\ Retries \subseteq Nat
  /\ IsFiniteSet(Files)
  /\ Outside \notin Files
  /\ \A a \in Archives : a \in Seq(Entry)
  /\ MaxFile \in Nat /\ MaxTotal \in Nat

Absent  == 0
Partial == -1

VARIABLES
  pc,          \* "idle", or where the call is
  kind,        \* the registry this is a client of
  call,        \* the method called last, or being called
  listing,     \* what a local or git registry finds
  constraint,  \* the constraint it is asked to meet
  best,        \* the version Resolve returned
  maxRetries,  \* of this client
  attempt,     \* the loop variable of doGet
  cancelled,   \* ctx is done
  log,         \* how each request of this call went
  late,        \* the requests that had gone out when the context ended
  archive,     \* the archive in the body
  done,        \* entries of it that were extracted
  total,       \* totalBytes
  dir,         \* the directory: the size stands for the content of a file
  result       \* of the last call, "none" while one runs

choice  == <<listing, constraint, best>>
client  == <<kind, maxRetries>>
request == <<attempt, log>>
body    == <<archive, done, total>>
vars == <<pc, client, call, choice, request, cancelled, late, body, dir, result>>

\* Fetch of the local and of the git registry is left to DependencyResolver.
CallsOf == [local |-> {"resolve"}, git |-> {"resolve"}, http |-> {"resolve", "search", "fetch"}]
Retryable == {"error", "5xx"}
Outcomes  == Retryable \cup {"200", "404", "4xx"}
Results   == {"none", "ok", "cancelled", "exceeded", "404", "4xx", "failed", "no match"}

AnyVersion == [op |-> "any", target |-> [spelling |-> "junk", version |-> NoVersion]]

TypeOK ==
  /\ pc \in {"idle", "try", "wait", "backoff", "body", "extract"}
  /\ kind \in DOMAIN CallsOf /\ call \in CallsOf[kind]
  /\ listing \in Listings \cup {<<>>} /\ constraint \in Constraints \cup {AnyVersion}
  /\ best \in Version \cup {NoVersion}
  /\ maxRetries \in Retries \cup {0} /\ attempt \in 0 .. maxRetries
  /\ log \in Seq(Outcomes)
  /\ late \in 0 .. Len(log)
  /\ Len(log) - attempt \in {0, 1}
  /\ cancelled \in BOOLEAN
  /\ archive \in Archives \cup {<<>>} /\ done \in 0 .. Len(archive) /\ total \in 0 .. MaxTotal
  /\ dir \in [Files -> Nat \cup {Partial}]
  /\ result \in Results

EmptyDir == [f \in Files |-> Absent]

Init ==
  /\ kind \in DOMAIN CallsOf
  /\ pc = "idle" /\ call = "resolve" /\ result = "none" /\ best = NoVersion
  /\ IF kind = "http" THEN listing = <<>> /\ constraint = AnyVersion
     ELSE listing \in Listings /\ constraint \in Constraints
  /\ IF kind = "http" THEN maxRetries \in Retries ELSE maxRetries = 0
  /\ attempt = 0 /\ log = <<>>
  /\ cancelled = FALSE /\ late = 0
  /\ archive = <<>> /\ done = 0 /\ total = 0
  /\ dir = EmptyDir

Return(r) == pc' = "idle" /\ result' = r

-----------------------------------------------------------------------------
(***************************************************************************)
(* LocalRegistry.Resolve and GitRegistry.Resolve.                          *)
(***************************************************************************)
\* The directories, or tags, that are versions; the others are passed over.
Candidates(l) ==
  LET Add(candidates, t) ==
        IF ParseVersion(t) = NoVersion THEN candidates
        ELSE Append(candidates, ParseVersion(t))
  IN FoldLeft(Add, <<>>, l)

\* A constraint that is malformed is an error as soon as a candidate is matched
\* with it.  The local registry reads the manifest and the files of the
\* directory that is named as the version is printed.
Choose(l, k) ==
  LET v == BestMatch(Candidates(l), k)
  IN IF Malformed(k) \/ v = NoVersion THEN <<NoVersion, "no match">>
     ELSE IF kind = "local" /\ String(v) \notin Range(l) THEN <<NoVersion, "failed">>
     ELSE <<v, "ok">>

ResolveVersion ==
  /\ pc = "idle" /\ kind \in {"local", "git"}
  /\ LET chosen == Choose(listing, constraint)
     IN best' = chosen[1] /\ Return(chosen[2])
  /\ UNCHANGED <<client, call, listing, constraint, request, cancelled, late, body, dir>>

-----------------------------------------------------------------------------
(***************************************************************************)
(* HTTPRegistry: Resolve, Search and Fetch, each by one doGet.             *)
(***************************************************************************)

Begin(c) ==
  /\ pc = "idle" /\ kind = "http"
  /\ call' = c
  /\ pc' = "try" /\ result' = "none"
  /\ attempt' = 0 /\ log' = <<>> /\ late' = 0 /\ cancelled' = FALSE
  /\ done' = 0 /\ total' = 0
  /\ UNCHANGED <<client, choice, archive, dir>>

\* The head of doGet's loop.  maxRetries may be 0: then nothing is sent.
Try ==
  /\ pc = "try"
  /\ IF attempt = maxRetries THEN Return("exceeded")
     ELSE IF cancelled THEN Return("cancelled")
     ELSE pc' = "wait" /\ UNCHANGED result
  /\ UNCHANGED <<client, call, choice, request, cancelled, late, body, dir>>

\* Mutant: every status but 200 is tried again.
Answered_RetryAll ==
  /\ pc = "wait"
  /\ \E o \in Outcomes :
       /\ log' = Append(log, o)
       /\ pc' = IF o = "200" THEN "body" ELSE "backoff"
  /\ UNCHANGED <<client, call, choice, attempt, cancelled, late, body, dir, result>>

\* client.Do returns: the server's answer, or an error, the end of the context
\* and the client's own timeout among them.
Answered ==
  /\ pc = "wait"
  /\ \E o \in Outcomes :
       /\ log' = Append(log, o)
       /\ \/ o = "200" /\ pc' = "body" /\ UNCHANGED result
          \/ o \in {"404", "4xx"} /\ Return(o)
          \/ o \in Retryable /\ pc' = "backoff" /\ UNCHANGED result
  /\ UNCHANGED <<client, call, choice, attempt, cancelled, late, body, dir>>

\* The pause ends, by its timer or by the context, and the loop goes on; it is
\* made after the last attempt as well.
Backoff ==
  /\ pc = "backoff"
  /\ pc' = "try" /\ attempt' = attempt + 1
  /\ UNCHANGED <<client, call, choice, log, cancelled, late, body, dir, result>>

\* Resolve and Search decode the body; what it says is taken as it is.
Decode ==
  /\ pc = "body" /\ call \in {"resolve", "search"}
  /\ \E r \in {"ok", "failed"} : Return(r)
  /\ UNCHANGED <<client, call, choice, request, cancelled, late, body, dir>>

\* Mutant: the directory is not cleared.
Clear_Not ==
  /\ pc = "body" /\ call = "fetch"
  /\ archive' \in Archives
  /\ pc' = "extract"
  /\ UNCHANGED <<client, call, choice, request, cancelled, late, done, total, dir, result>>

\* Fetch removes the directory and makes it anew.
Clear ==
  /\ pc = "body" /\ call = "fetch"
  /\ archive' \in Archives
  /\ pc' = "extract"
  /\ dir' = EmptyDir
  /\ UNCHANGED <<client, call, choice, request, cancelled, late, done, total, result>>

\* The limits on a file and on all of them, from the sizes the headers give.
Fits(e) == e.size <= MaxFile /\ total + e.size <= MaxTotal

\* One entry of the archive.  A file that comes twice is written twice, and
\* counts twice.
Extract ==
  /\ pc = "extract" /\ done < Len(archive)
  /\ LET e == archive[done + 1]
     IN \/ /\ e.type = "other" /\ e.name # Outside
           /\ UNCHANGED <<dir, total>>
        \/ /\ e.type = "file" /\ e.name # Outside /\ Fits(e)
           /\ dir' = [dir EXCEPT ![e.name] = e.size]
           /\ total' = total + e.size
  /\ done' = done + 1
  /\ UNCHANGED <<pc, client, call, choice, request, cancelled, late, archive, result>>

\* An entry breaks a rule.
Refuse ==
  /\ pc = "extract" /\ done < Len(archive)
  /\ LET e == archive[done + 1]
     IN e.name = Outside \/ (e.type = "file" /\ ~ Fits(e))
  /\ Return("failed")
  /\ UNCHANGED <<client, call, choice, request, cancelled, late, body, dir>>

\* The stream ends or breaks early, the context ends while it is read, or a
\* write fails: what was extracted stays, a file cut short included.
ExtractFails ==
  /\ pc = "extract"
  /\ \/ UNCHANGED dir
     \/ /\ done < Len(archive)
        /\ LET e == archive[done + 1]
           IN e.type = "file" /\ e.name # Outside /\ Fits(e) /\ dir' = [dir EXCEPT ![e.name] = Partial]
  /\ Return("failed")
  /\ UNCHANGED <<client, call, choice, request, cancelled, late, body>>

\* Fetch cannot remove all of the directory.
ClearFails ==
  /\ pc = "body" /\ call = "fetch"
  /\ \E left \in SUBSET Files : dir' = [f \in Files |-> IF f \in left THEN dir[f] ELSE Absent]
  /\ Return("failed")
  /\ UNCHANGED <<client, call, choice, request, cancelled, late, body>>

Finish ==
  /\ pc = "extract" /\ done = Len(archive)
  /\ Return("ok")
  /\ UNCHANGED <<client, call, choice, request, cancelled, late, body, dir>>

Cancel ==
  /\ pc # "idle" /\ ~ cancelled
  /\ cancelled' = TRUE /\ late' = Len(log)
  /\ UNCHANGED <<pc, client, call, choice, request, body, dir, result>>

ClientStep ==
  \/ Try \/ Answered \/ Backoff \/ Decode
  \/ Clear \/ ClearFails \/ Extract \/ Refuse \/ ExtractFails \/ Finish

Next ==
  \/ ResolveVersion
  \/ \E c \in CallsOf["http"] : Begin(c)
  \/ ClientStep
  \/ Cancel

Spec == Init /\ [][Next]_vars

-----------------------------------------------------------------------------
\* What the local registry resolves it can fetch: the directory is there under
\* the very name that LocalRegistry.Fetch puts together from the version.
ResolvedCanBeFetched ==
  kind = "local" /\ result = "ok" => String(best) \in Range(listing)

\* Resolve of the local and the git registry answers with a version that the
\* listing has and the constraint's range admits, and no higher one is both; it
\* finds none only if there is none, or the constraint is malformed.
BestIsHighestInRange ==
  /\ ResolvedCanBeFetched
  /\ kind \in {"local", "git"} =>
       LET listed   == {ParseVersion(t) : t \in Range(listing)} \ {NoVersion}
           admitted == IF Malformed(constraint) THEN {}
                       ELSE {v \in listed : Admits(constraint, v)}
       IN /\ result = "ok"       => best \in admitted /\ \A v \in admitted : ~ Before(best, v)
          /\ result = "no match" => admitted = {}
          /\ result = "failed"   => admitted # {}

\* After the context has ended at most one more request goes out: the one that
\* was past the check already.
CancelStopsTheRetries == cancelled => Len(log) <= late + 1

\* The answer of a call follows from its requests alone: all but the last failed
\* in a way that is worth another try, none was sent after a 404 or another
\* refusal, and giving up means that all attempts were used or the context ended.
AnswerIsExplained ==
  /\ CancelStopsTheRetries
  /\ kind = "http" /\ pc = "idle" /\ log # <<>> =>
       LET last == log[Len(log)]
       IN /\ \A i \in 1 .. Len(log) - 1 : log[i] \in Retryable
          /\ Len(log) <= maxRetries
          /\ last = "200" => result \in {"ok", "failed"}
          /\ last \in {"404", "4xx"} => result = last
          /\ last \in Retryable =>
               \/ result = "cancelled" /\ cancelled
               \/ result = "exceeded" /\ Len(log) = maxRetries

\* The disk that each file takes, one that was cut short at most the limit.
Occupied == [f \in Files |-> IF dir[f] = Partial THEN MaxFile ELSE dir[f]]

\* However an archive is put together, it never takes more of the disk than the
\* limit for all files.
DiskIsBounded ==
  SumFunction(Occupied)
    <= MaxTotal + (IF \E f \in Files : dir[f] = Partial THEN MaxFile ELSE 0)

\* The content of f after the first n entries of the archive: that of the last one.
Content(f, n) ==
  LET written == {i \in 1 .. n : archive[i].type = "file" /\ archive[i].name = f}
  IN IF written = {} THEN Absent
     ELSE archive[CHOOSE i \in written : \A j \in written : j <= i].size

\* A fetch that succeeds leaves the directory as the archive has it, within the
\* limits: every file with the content that comes last, and no file of an earlier
\* fetch, whatever that one left half done.
FetchedIsTheArchive ==
  /\ TypeOK
  /\ DiskIsBounded
  /\ pc = "idle" /\ call = "fetch" /\ result = "ok" =>
       \A f \in Files : dir[f] = Content(f, Len(archive))
=============================================================================
