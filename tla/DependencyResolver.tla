------------------------ MODULE DependencyResolver ------------------------
(***************************************************************************)
(* Dependency resolution: DependencyResolver.Resolve                       *)
(* (internal/application/dependency), the lock file it keeps, and the      *)
(* package cache and the registries it is used with                        *)
(* (internal/adapter/registry), over many builds.  Between and during the  *)
(* builds the manifest is edited, the registry changes, contexts end and   *)
(* processes crash.                                                        *)
(*                                                                         *)
(* The content of a package is a number that stands for its files and      *)
(* their hash alike.  A directory holds the content of one package, or a   *)
(* part of it, or is missing.                                              *)
(***************************************************************************)
EXTENDS Integers, FiniteSets

CONSTANTS
  Names,       \* the packages
  Versions,    \* the versions they may have, numbered in their order
  Contents,    \* the contents a version may have
  Manifests,   \* manifests: of each package, the versions its constraint admits
  Registries,  \* the states of the registry
  Answers,     \* what an HTTP registry may answer to a constraint
  Configs      \* how the resolver is put together

Missing == 0
Torn    == -1
NoHash  == 0

\* Of a package that a manifest does not mention, it admits no version.
Manifest == [Names -> SUBSET Versions]

\* The content the registry serves of each version, or Missing.
Registry == [Names -> [Versions -> Contents \cup {Missing}]]

\* registry: the kind of registry.  cache, checked: the resolver has a DiskCache,
\* a VersionSatisfier.  shared: the registry extracts packages into the directory
\* of the cache.
Config == [registry : {"local", "http", "git"},
           cache    : BOOLEAN,
           checked  : BOOLEAN,
           shared   : BOOLEAN]

\* A ResolvedPackage.
Resolution == [name : Names, version : Versions, digest : Contents \cup {NoHash}]

ASSUME ResolverAssumption ==
  /\ Versions \subseteq Nat \ {0}
  /\ Contents \subseteq Nat \ {0}
  /\ Manifests \subseteq Manifest
  /\ Registries \subseteq Registry
  /\ Answers \subseteq Resolution
  /\ Configs \subseteq Config

VARIABLES
  config,     \* how the resolver is put together
  manifest,   \* manifest.yaml
  registry,   \* what the registry serves
  dirs,       \* the directories of the cache, and those a registry extracts to
  lock,       \* manifest.lock.json, without entries when there is no such file
  torn,       \* the lock file was cut short and cannot be parsed
  pc,         \* where Resolve is: "idle" or the step it takes next
  cancelled,  \* ctx is done
  todo,       \* the dependencies the loop has not taken yet
  dep,        \* the dependency it works on
  pkg,        \* the ResolvedPackage: the name it is fetched and cached by,
  res,        \* its version and the hash it must have
  fresh,      \* res comes from the registry, not from the lock file
  root,       \* the kind of the directory contents.RootDir is
  mem,        \* the LockFile in memory
  changed,    \* lockChanged
  tree,       \* the packages whose objects were merged into the SourceTree
  result      \* "none", "running", "ok", or why the last build ended

world   == <<config, manifest, registry>>
disk    == <<dirs, lock, torn>>
working == <<todo, dep, pkg, res, fresh, root, mem, changed, tree>>
vars    == <<world, disk, pc, cancelled, working, result>>

NoEntry == [version |-> 0, digest |-> 0]
Entry   == [version : Versions, digest : Contents \cup {NoHash}]
NoLock  == [n \in Names |-> NoEntry]

Deps == {n \in Names : manifest[n] # {}}

-----------------------------------------------------------------------------
Init ==
  /\ config \in Configs
  /\ manifest \in Manifests
  /\ registry \in Registries
  /\ dirs = [s \in {"cache", "extract"} |-> [n \in Names |-> [v \in Versions |-> Missing]]]
  /\ lock = NoLock
  /\ torn = FALSE
  /\ pc = "idle"
  /\ cancelled = FALSE
  /\ todo = {}
  /\ dep \in Names
  /\ pkg = dep
  /\ res = NoEntry
  /\ fresh = FALSE
  /\ root = "cache"
  /\ mem = NoLock
  /\ changed = FALSE
  /\ tree = {}
  /\ result = "none"

iteration == <<dep, pkg, res, fresh, root>>

\* The variables of an iteration are forgotten, except for what it was about.
Forget ==
  /\ dep' = dep
  /\ pkg' = dep
  /\ res' = NoEntry
  /\ fresh' = FALSE
  /\ root' = "cache"

\* Resolve returns, with an error unless why is "ok".  The pipeline does not look
\* at the tree that comes with an error.
Return(why) ==
  /\ Forget
  /\ pc' = "idle"
  /\ result' = why
  /\ tree' = IF why = "ok" THEN tree ELSE {}
  /\ todo' = {}
  /\ mem' = NoLock
  /\ changed' = FALSE
  /\ cancelled' = FALSE

\* Resolve is called.  Without dependencies it does not look at the lock file.
Resolve ==
  /\ pc = "idle"
  /\ pc' = IF Deps = {} THEN "next" ELSE "read"
  /\ result' = "running"
  /\ todo' = Deps
  /\ changed' = FALSE
  /\ tree' = {}
  /\ UNCHANGED <<world, disk, cancelled, iteration, mem>>

\* A file that does not exist is an empty LockFile, one that does not parse is
\* an error.
ReadLockFile ==
  /\ pc = "read"
  /\ \/ torn /\ Return("failed")
     \/ /\ ~ torn
        /\ pc' = "next"
        /\ mem' = lock
        /\ UNCHANGED <<todo, iteration, changed, cancelled, tree, result>>
  /\ UNCHANGED <<world, disk>>

-----------------------------------------------------------------------------
(***************************************************************************)
(* One dependency.  The loop takes them in the order of a Go map.          *)
(***************************************************************************)

\* The lock file has an entry for n, and it is not stale.  Without a
\* VersionSatisfier no entry is.
Usable(n) == mem[n] # NoEntry /\ (config.checked => mem[n].version \in manifest[n])

\* Mutant: what the cache has is used as it is.
TakeLocked_Unverified(n) ==
  /\ pc = "next"
  /\ n \in todo
  /\ ~ cancelled
  /\ Usable(n)
  /\ dep' = n
  /\ pkg' = n
  /\ res' = mem[n]
  /\ fresh' = FALSE
  /\ IF config.cache /\ dirs["cache"][n][mem[n].version] # Missing
       THEN pc' = "parse" /\ root' = "cache"
       ELSE pc' = "fetch" /\ UNCHANGED root
  /\ UNCHANGED <<world, disk, cancelled, todo, mem, changed, tree, result>>

\* resolveLocked: the cache is asked first, and what it has is verified; it is
\* an error if it does not match.  Otherwise the locked version is fetched.
TakeLocked(n) ==
  /\ pc = "next"
  /\ n \in todo
  /\ ~ cancelled
  /\ Usable(n)
  /\ LET cached == dirs["cache"][n][mem[n].version]
         hit    == config.cache /\ cached # Missing
         good   == mem[n].digest \in {NoHash, cached}
     IN \/ /\ hit /\ ~ good
           /\ Return("mismatch")
        \/ /\ hit => good
           /\ dep' = n
           /\ pkg' = n
           /\ res' = mem[n]
           /\ IF hit
                THEN pc' = "parse" /\ root' = "cache"
                ELSE pc' = "fetch" /\ UNCHANGED root
           /\ fresh' = FALSE
           /\ UNCHANGED <<todo, mem, changed, cancelled, tree, result>>
  /\ UNCHANGED <<world, disk>>

\* Resolve of the registries.  A local and a git registry take the highest of the
\* versions that are published and admitted; git gives no hash.  What an HTTP
\* registry answers is compared with nothing: the package may have another name,
\* a version that the constraint does not admit, any hash or none.
ResolveFresh(n) ==
  /\ pc = "next"
  /\ n \in todo
  /\ ~ cancelled
  /\ ~ Usable(n)
  /\ dep' = n
  /\ fresh' = TRUE
  /\ \/ /\ config.registry # "http"
        /\ pkg' = n
        /\ \E v \in manifest[n] :
             /\ registry[n][v] # Missing
             /\ \A w \in manifest[n] : registry[n][w] # Missing => w <= v
             /\ res' = [version |-> v,
                        digest  |-> IF config.registry = "git" THEN NoHash ELSE registry[n][v]]
     \/ /\ config.registry = "http"
        /\ \E a \in Answers :
             pkg' = a.name /\ res' = [version |-> a.version, digest |-> a.digest]
  /\ pc' = "fetch"
  /\ UNCHANGED <<world, disk, cancelled, todo, root, mem, changed, tree, result>>

\* The directory of res: a local registry serves its own, the others extract.
Extract == IF config.shared THEN "cache" ELSE "extract"

Held(s) == IF s = "registry" THEN registry[pkg][res.version] ELSE dirs[s][pkg][res.version]

Fill(s, content) == dirs' = [dirs EXCEPT ![s][pkg][res.version] = content]

\* LocalRegistry.Fetch: the directory is there.
FetchLocal ==
  /\ config.registry = "local"
  /\ ~ cancelled
  /\ Held("registry") # Missing
  /\ root' = "registry"
  /\ UNCHANGED dirs

\* HTTPRegistry.Fetch clears the directory and extracts the archive.
FetchHTTP ==
  /\ config.registry = "http"
  /\ ~ cancelled
  /\ Held("registry") # Missing
  /\ root' = Extract
  /\ Fill(Extract, Held("registry"))

\* GitRegistry.Fetch clones the tag, unless there is a clone already.
FetchGit ==
  /\ config.registry = "git"
  /\ root' = "extract"
  /\ \/ Held("extract") # Missing /\ UNCHANGED dirs
     \/ /\ Held("extract") = Missing
        /\ ~ cancelled
        /\ Held("registry") # Missing
        /\ Fill("extract", Held("registry"))

Fetch ==
  /\ pc = "fetch"
  /\ FetchLocal \/ FetchHTTP \/ FetchGit
  /\ pc' = "verify"
  /\ UNCHANGED <<world, lock, torn, cancelled, todo, dep, pkg, res, fresh, mem, changed, tree,
                 result>>

\* HTTPRegistry.Fetch fails while it clears the directory or extracts, and
\* leaves it so.  (A git clone that fails is removed.)
FetchFails ==
  /\ pc = "fetch"
  /\ config.registry = "http"
  /\ \E left \in {Missing, Torn} : Fill(Extract, left)
  /\ Return("failed")
  /\ UNCHANGED <<world, lock, torn>>

\* lockFile.SetEntry, for a fresh resolution.
SetEntry ==
  /\ mem' = IF fresh THEN [mem EXCEPT ![dep] = res] ELSE mem
  /\ changed' = (changed \/ fresh)

\* Mutant: a package that does not match is fetched again.
Verify_Again ==
  /\ pc = "verify"
  /\ IF res.digest \in {NoHash, Held(root)}
       THEN IF config.cache
              THEN pc' = "put" /\ UNCHANGED <<mem, changed>>
              ELSE pc' = "parse" /\ SetEntry
       ELSE pc' = "fetch" /\ UNCHANGED <<mem, changed>>
  /\ UNCHANGED <<world, disk, cancelled, todo, iteration, tree, result>>

\* Verify compares the hash of the directory with that of the resolution, if
\* there is one.
Verify ==
  /\ pc = "verify"
  /\ IF res.digest \in {NoHash, Held(root)}
       THEN /\ IF config.cache
                 THEN pc' = "put" /\ UNCHANGED <<mem, changed>>
                 ELSE pc' = "parse" /\ SetEntry
            /\ UNCHANGED <<todo, iteration, cancelled, tree, result>>
       ELSE Return("mismatch")
  /\ UNCHANGED <<world, disk>>

\* DiskCache.Put removes the entry and copies the directory; if that is the
\* directory of the entry itself there is nothing left to copy.  Its errors are
\* ignored: the entry may be as it was, removed, or a part of either.
Put ==
  /\ pc = "put"
  /\ \E left \in {Held("cache"), Missing, Torn}
                  \cup (IF root = "cache" THEN {} ELSE {Held(root)}) : Fill("cache", left)
  /\ SetEntry
  /\ pc' = "parse"
  /\ UNCHANGED <<world, lock, torn, cancelled, todo, iteration, tree, result>>

\* parseExternalObjects, and the append to tree.Objects.  A directory that is
\* missing is a package without objects.
ParseExternalObjects ==
  /\ pc = "parse"
  /\ tree' = tree \cup {[name |-> dep, version |-> res.version, content |-> Held(root)]}
  /\ todo' = todo \ {dep}
  /\ Forget
  /\ pc' = "next"
  /\ UNCHANGED <<world, disk, cancelled, mem, changed, result>>

-----------------------------------------------------------------------------
(***************************************************************************)
(* The end of a build                                                      *)
(***************************************************************************)

\* ctx is done, ahead of a dependency.
StopAtDependency ==
  /\ pc = "next"
  /\ todo # {}
  /\ cancelled
  /\ Return("cancelled")
  /\ UNCHANGED <<world, disk>>

\* Mutant: what was resolved before the error is saved.
Fail_SaveLock ==
  /\ \/ pc \in {"read", "fetch", "verify", "parse"}
     \/ pc = "next" /\ todo # {}
  /\ lock' = IF changed THEN mem ELSE lock
  /\ Return("failed")
  /\ UNCHANGED <<world, dirs, torn>>

\* A read, the version check, the registry or the parser returns an error, and
\* Resolve returns it.  Of the lock file, nothing was written yet.
Fail ==
  /\ \/ pc \in {"read", "fetch", "verify", "parse"}
     \/ pc = "next" /\ todo # {}
  /\ Return("failed")
  /\ UNCHANGED <<world, disk>>

\* All dependencies are resolved: the lock file is written if it changed.
Finish ==
  /\ pc = "next"
  /\ todo = {}
  /\ IF changed
       THEN pc' = "write" /\ UNCHANGED <<working, cancelled, result>>
       ELSE Return("ok")
  /\ UNCHANGED <<world, disk>>

WriteLockFile ==
  /\ pc = "write"
  /\ lock' = mem
  /\ Return("ok")
  /\ UNCHANGED <<world, dirs, torn>>

\* os.WriteFile truncates the file and writes it.  It fails, or the process
\* ends, before the first or between the two.
WriteLockFails ==
  /\ pc = "write"
  /\ \/ UNCHANGED <<lock, torn>>
     \/ lock' = NoLock /\ torn' = TRUE
  /\ Return("failed")
  /\ UNCHANGED <<world, dirs>>

\* The process ends before or while it takes the step it is at; where it was
\* filling a directory, that is missing or torn.  What of the lock file is left
\* is in WriteLockFails.
Crash ==
  /\ pc \notin {"idle", "write"}
  /\ \/ UNCHANGED dirs
     \/ pc = "fetch" /\ config.registry = "http" /\ \E left \in {Missing, Torn} :
          Fill(Extract, left)
     \/ /\ pc = "fetch" /\ config.registry = "git" /\ Held("extract") = Missing
        /\ Fill("extract", Torn)
     \/ pc = "put" /\ \E left \in {Missing, Torn} : Fill("cache", left)
  /\ Return("crashed")
  /\ UNCHANGED <<world, lock, torn>>

-----------------------------------------------------------------------------
(***************************************************************************)
(* The surroundings                                                        *)
(***************************************************************************)

\* The context of the build ends.
Cancel ==
  /\ pc # "idle"
  /\ ~ cancelled
  /\ cancelled' = TRUE
  /\ UNCHANGED <<world, disk, pc, working, result>>

\* manifest.yaml is edited, between two builds.
EditManifest ==
  /\ pc = "idle"
  /\ manifest' \in Manifests
  /\ UNCHANGED <<config, registry, disk, pc, cancelled, working, result>>

\* Versions are published, withdrawn or replaced, at any time.  The directory
\* of a local registry is not touched while the resolver reads from it.
ChangeRegistry ==
  /\ ~ (config.registry = "local" /\ pc \in {"put", "parse"})
  /\ registry' \in Registries
  /\ UNCHANGED <<config, manifest, disk, pc, cancelled, working, result>>

\* DiskCache.Invalidate, which nothing in the resolver calls: somebody cleans up.
Invalidate ==
  /\ pc = "idle"
  /\ \E s \in DOMAIN dirs, n \in Names, v \in Versions : dirs' = [dirs EXCEPT ![s][n][v] = Missing]
  /\ UNCHANGED <<world, lock, torn, pc, cancelled, working, result>>

\* Somebody deletes a lock file that cannot be parsed.
RemoveLockFile ==
  /\ pc = "idle"
  /\ torn
  /\ torn' = FALSE
  /\ UNCHANGED <<world, dirs, lock, pc, cancelled, working, result>>

Advance ==
  \/ ReadLockFile
  \/ \E n \in Names : TakeLocked(n) \/ ResolveFresh(n)
  \/ Fetch
  \/ FetchFails
  \/ Verify
  \/ Put
  \/ ParseExternalObjects
  \/ StopAtDependency
  \/ Fail
  \/ Finish
  \/ WriteLockFile
  \/ WriteLockFails

Next ==
  \/ Advance
  \/ Resolve
  \/ Crash
  \/ Cancel
  \/ EditManifest
  \/ ChangeRegistry
  \/ Invalidate
  \/ RemoveLockFile

Spec == Init /\ [][Next]_vars

\* A build runs in one goroutine, and every call it makes returns.
FairSpec == Spec /\ WF_vars(Advance)

-----------------------------------------------------------------------------
(***************************************************************************)
(* Properties                                                              *)
(***************************************************************************)

Package == [name : Names, version : Versions, content : Contents \cup {Missing, Torn}]

\* The variables have their types.
TypeOK ==
  /\ config \in Configs
  /\ manifest \in Manifests
  /\ registry \in Registries
  /\ dirs \in [{"cache", "extract"} -> [Names -> [Versions -> Contents \cup {Missing, Torn}]]]
  /\ lock \in [Names -> Entry \cup {NoEntry}]
  /\ torn \in BOOLEAN
  /\ pc \in {"idle", "read", "next", "fetch", "verify", "put", "parse", "write"}
  /\ cancelled \in BOOLEAN
  /\ todo \subseteq Names
  /\ dep \in Names
  /\ pkg \in Names
  /\ res \in Entry \cup {NoEntry}
  /\ pc \in {"fetch", "verify", "put", "parse"} => res # NoEntry /\ dep \in todo
  /\ fresh \in BOOLEAN
  /\ root \in {"registry", "cache", "extract"}
  /\ mem \in [Names -> Entry \cup {NoEntry}]
  /\ changed \in BOOLEAN
  /\ tree \in SUBSET Package
  /\ result \in {"none", "running", "ok", "failed", "mismatch", "cancelled", "crashed"}
  /\ pc = "idle" <=> result # "running"

\* The registry extracts into the directory of the cache, and Put, given that very
\* directory, removes it before it copies it.
Spoils == config.registry = "http" /\ config.cache /\ config.shared

Matches(digest, content) ==
  digest \in {NoHash, content} \/ (Spoils /\ content \in {Missing, Torn})

LockAgrees ==
  result = "ok" =>
    \A r \in tree :
      /\ lock[r.name].version = r.version
      /\ Matches(lock[r.name].digest, r.content)

\* resolver.go:127, "Parse objects from the fetched package and merge into tree":
\* what is merged is a package or, where there is no hash, a part of one, and never
\* a directory that is not there.
FetchedIsMerged == result = "ok" => \A r \in tree : r.content # Missing \/ Spoils

\* lockfile.go, "records exact versions resolved": after a build that succeeds
\* the lock file on disk has, of every package merged into the tree, the version
\* that was merged and the hash of the content that was merged, and the package was
\* there when it was merged, whatever was published, replaced, cached or left half
\* done before.  There are two exceptions: the registry gave no hash, or the
\* package was verified and then removed, in whole or in part, by the cache that
\* shares its directory.
LockPinsTheBuild ==
  /\ TypeOK
  /\ LockAgrees
  /\ FetchedIsMerged

\* Every build ends.
EveryBuildEnds == pc # "idle" ~> pc = "idle"

\* The packages of the last build; content that has no hash is not compared, nor
\* what is left of a package that was removed.
Output ==
  IF result # "ok"
    THEN {}
    ELSE {[r EXCEPT !.content = IF lock[r.name].digest = NoHash \/ @ = Torn THEN Missing ELSE @] :
            r \in tree}

Status == CASE result = "none"            -> "idle"
            [] result \in {"running", "ok"} -> result
            [] OTHER                      -> "failed"

\* Resolution is reproducible: seen from outside, a build is one step that keeps
\* the entries of the lock file that are still good and pins what it uses.  What
\* an HTTP registry answers need not be admitted.
R == INSTANCE ReproducibleBuild
       WITH Pins      <- Entry,
            NoPin     <- NoEntry,
            Nothing   <- Missing,
            checked   <- config.checked,
            admitting <- config.registry # "http",
            intact    <- ~ Spoils,
            pinned    <- lock,
            lost      <- torn,
            output    <- Output,
            status    <- Status

ImplementsReproducibleBuild == R!Spec

=============================================================================
