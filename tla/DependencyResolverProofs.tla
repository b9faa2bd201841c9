---------------------- MODULE DependencyResolverProofs ----------------------
(***************************************************************************)
(* The lock file pins what a build merged, and builds are reproducible:    *)
(* for any packages, versions, manifests, registries and answers of HTTP   *)
(* registries, and every way of putting the resolver together.  Where the  *)
(* registry extracts into the directory of the cache, packages may be lost *)
(* after they were verified.  And every build comes to an end.             *)
(***************************************************************************)
EXTENDS DependencyResolver, TLAPS, FiniteSetTheorems

InDependency == pc \in {"fetch", "verify", "put", "parse"}

\* The entry of the lock file on disk is one that a build keeps.
Keeps(n) == lock[n] # NoEntry /\ (config.checked => lock[n].version \in manifest[n])

\* The registry takes no version that the manifest does not admit.
Admitting == config.registry # "http"

\* Before the lock file is read, nothing was done.
BeginInv == pc = "read" => tree = {} /\ todo = Deps /\ ~ changed /\ Deps # {}

\* The lock file in memory: that on disk, with the entries of the dependencies
\* that are done.  A build without dependencies does not read it.
MemoryInv ==
  pc \notin {"idle", "read"} /\ Deps # {} =>
    /\ ~ torn
    /\ ~ changed => mem = lock
    /\ \A n \in Names : n \notin Deps \/ Keeps(n) => mem[n] = lock[n]
    /\ \A n \in todo : ~ (pc = "parse" /\ n = dep) => mem[n] = lock[n]

\* The packages in the tree are those of the dependencies that are done, each as
\* its entry in memory says.  An entry that is new is of a version that is admitted,
\* unless an HTTP registry chose it.
TreeInv ==
  pc \notin {"idle", "read"} =>
    /\ todo \subseteq Deps
    /\ {r.name : r \in tree} = Deps \ todo
    /\ \A q, r \in tree : q.name = r.name => q = r
    /\ \A n \in Deps \ todo :
         mem[n] # NoEntry /\ (Keeps(n) \/ (Admitting => mem[n].version \in manifest[n]))
    /\ \A r \in tree :
         mem[r.name].version = r.version /\ Matches(mem[r.name].digest, r.content)

\* The dependency in hand: where its entry comes from, and, from Verify on, that
\* the directory in hand has the content it was verified to have, or what Put left
\* of it.
DependencyInv ==
  InDependency =>
    /\ Keeps(dep) \/ (Admitting => res.version \in manifest[dep])
    /\ fresh /\ pc # "parse" => ~ Keeps(dep)
    /\ ~ fresh \/ pc = "parse" => mem[dep] = res
    /\ pc # "fetch" /\ root = "registry" => config.registry = "local"
    /\ pc \in {"verify", "put"} /\ root = "cache" => config.registry = "http" /\ config.shared
    /\ pc = "put" => res.digest \in {NoHash, Held(root)} /\ config.cache
    /\ pc = "parse" => Matches(res.digest, Held(root))

\* What LockPinsTheBuild says of the lock file.
Pinned == TypeOK /\ LockAgrees

IInv ==
  /\ Pinned
  /\ BeginInv
  /\ MemoryInv
  /\ TreeInv
  /\ DependencyInv

-----------------------------------------------------------------------------
\* A registry serves contents; hashes and numbers that say that there is none
\* are none of them.
LEMMA Constants ==
  /\ 0 \notin Versions /\ 0 \notin Contents /\ -1 \notin Contents
  /\ \A e \in Entry : e # NoEntry
  /\ NoEntry \notin Entry
BY ResolverAssumption DEF Entry, NoEntry

LEMMA ConfigTypes ==
  ASSUME config \in Configs
  PROVE  config.checked \in BOOLEAN /\ config.registry \in {"local", "http", "git"}
BY ResolverAssumption DEF Config

\* A build that ends without success leaves nothing that the invariant is about.
LEMMA ReturnInv ==
  ASSUME IInv, NEW why \in {"failed", "mismatch", "cancelled", "crashed"}, Return(why),
         UNCHANGED <<config, manifest, registry>>,
         torn' \in BOOLEAN, lock' \in [Names -> Entry \cup {NoEntry}],
         dirs' \in [{"cache", "extract"} ->
                      [Names -> [Versions -> Contents \cup {Missing, Torn}]]]
  PROVE  IInv'
<1> USE DEF Return, Forget
<1>1. TypeOK'
  <2>1. mem' \in [Names -> Entry \cup {NoEntry}] BY DEF NoLock
  <2> QED BY <2>1 DEF IInv, Pinned, LockAgrees, TypeOK
<1>2. Pinned' BY <1>1 DEF Pinned, LockAgrees
<1> QED
  BY <1>2 DEF IInv, BeginInv, MemoryInv, TreeInv, DependencyInv, InDependency

\* What a fetch or the cache does to directories keeps their type.
LEMMA FillTypes ==
  ASSUME TypeOK, NEW s \in {"cache", "extract"}, res \in Entry,
         NEW content \in Contents \cup {Missing, Torn}, Fill(s, content)
  PROVE  /\ dirs' \in [{"cache", "extract"} ->
                         [Names -> [Versions -> Contents \cup {Missing, Torn}]]]
         /\ dirs'[s][pkg][res.version] = content
         /\ \A t \in {"cache", "extract"} : t # s => dirs'[t] = dirs[t]
<1>1. pkg \in Names /\ res.version \in Versions BY DEF TypeOK, Entry
<1> QED BY <1>1 DEF TypeOK, Fill

\* The entry of the dependency in hand is an entry, and a directory holds a
\* content, a part of one, or nothing.
LEMMA InHand ==
  ASSUME TypeOK, InDependency
  PROVE  /\ res \in Entry /\ dep \in todo /\ dep \in Names /\ pkg \in Names
         /\ res.version \in Versions
         /\ \A s \in {"registry", "cache", "extract"} :
              Held(s) \in Contents \cup {Missing, Torn}
<1>1. res \in Entry /\ dep \in todo /\ dep \in Names /\ pkg \in Names
  BY DEF TypeOK, InDependency
<1>2. res.version \in Versions BY <1>1 DEF Entry
<1>3. registry[pkg][res.version] \in Contents \cup {Missing}
  <2>1. registry \in Registry BY ResolverAssumption DEF TypeOK
  <2> QED BY <1>1, <1>2, <2>1 DEF Registry
<1> QED BY <1>1, <1>2, <1>3 DEF TypeOK, Held

LEMMA InitInv == Init => IInv
<1> SUFFICES ASSUME Init PROVE IInv
  OBVIOUS
<1> USE DEF Init
<1>1. TypeOK
  <2>1. lock \in [Names -> Entry \cup {NoEntry}] /\ mem \in [Names -> Entry \cup {NoEntry}]
    BY DEF NoLock
  <2> QED BY <2>1 DEF TypeOK
<1> QED
  BY <1>1 DEF IInv, Pinned, LockAgrees, BeginInv, MemoryInv, TreeInv, DependencyInv,
                    InDependency

\* The start of a build.
LEMMA ResolveInv == ASSUME IInv, Resolve PROVE IInv'
<1> USE DEF Resolve, world, disk
<1>1. TypeOK' BY DEF IInv, Pinned, LockAgrees, TypeOK, Deps, iteration
<1>2. Pinned' BY <1>1 DEF Pinned, LockAgrees
<1>3. BeginInv' BY DEF BeginInv, Deps
<1>4. MemoryInv' BY DEF MemoryInv, Deps
<1>5. TreeInv' BY DEF TreeInv, Deps
<1>6. DependencyInv' BY DEF DependencyInv, InDependency
<1> QED BY <1>2, <1>3, <1>4, <1>5, <1>6 DEF IInv

LEMMA ReadLockInv == ASSUME IInv, ReadLockFile PROVE IInv'
<1> USE DEF ReadLockFile, world, disk
<1>1. CASE Return("failed")
  BY <1>1, ReturnInv DEF IInv, Pinned, LockAgrees, TypeOK
<1>2. CASE /\ ~ torn
           /\ pc' = "next"
           /\ mem' = lock
           /\ UNCHANGED <<todo, iteration, changed, cancelled, tree, result>>
  <2>1. TypeOK' BY <1>2 DEF IInv, Pinned, LockAgrees, TypeOK, iteration
  <2>2. Pinned' BY <1>2, <2>1 DEF IInv, Pinned, LockAgrees, Matches, Spoils
  <2>3. MemoryInv' BY <1>2 DEF MemoryInv, Deps, Keeps
  <2>4. TreeInv' BY <1>2 DEF IInv, BeginInv, TreeInv, Deps
  <2> QED BY <1>2, <2>2, <2>3, <2>4 DEF IInv, BeginInv, DependencyInv, InDependency
<1> QED BY <1>1, <1>2

\* Setting the entry of the dependency in hand, which is still to be done, says
\* nothing new of those that are done, and replaces no entry that is kept.
LEMMA SetEntryInv ==
  ASSUME IInv, pc \in {"verify", "put"},
         \/ pc' = "put" /\ UNCHANGED <<mem, changed>>
         \/ pc' = "parse" /\ SetEntry,
         UNCHANGED <<config, manifest, lock, torn, todo, iteration, tree>>
  PROVE  MemoryInv' /\ TreeInv'
<1>1. TypeOK /\ InDependency BY DEF IInv, Pinned, LockAgrees, InDependency
<1>2. dep \in todo /\ dep \in Names BY <1>1, InHand
<1>3. Deps' = Deps /\ \A n : Keeps(n)' <=> Keeps(n) BY DEF Deps, Keeps
<1>4. \A n \in Names : n # dep => mem'[n] = mem[n]
  BY <1>1, <1>2 DEF SetEntry, TypeOK
<1>5. dep \in Deps BY <1>1, <1>2 DEF IInv, TreeInv, InDependency
<1>6. mem'[dep] # mem[dep] => ~ Keeps(dep) /\ pc' = "parse"
  BY <1>1 DEF IInv, DependencyInv, InDependency, SetEntry
<1>7. MemoryInv'
  <2>1. ~ changed' => mem' = mem /\ ~ changed BY DEF SetEntry
  <2>2. \A n \in todo : n \in Names BY <1>1 DEF TypeOK
  <2> QED BY <1>3, <1>4, <1>5, <1>6, <2>1, <2>2 DEF IInv, MemoryInv, Keeps, iteration
<1>8. TreeInv'
  <2>1. \A n \in Deps \ todo : mem'[n] = mem[n] BY <1>2, <1>4 DEF Deps
  <2>2. \A r \in tree : mem'[r.name] = mem[r.name]
    BY <1>1, <2>1 DEF IInv, TreeInv, InDependency
  <2> QED BY <1>3, <2>1, <2>2 DEF IInv, TreeInv, Admitting, Matches, Spoils, iteration
<1> QED BY <1>7, <1>8

\* The entry of the lock file is taken, with the directory of the cache if there
\* is one, which has what the entry says.
LEMMA TakeLockedInv == ASSUME IInv, NEW n \in Names, TakeLocked(n) PROVE IInv'
<1> USE DEF world, disk
<1> DEFINE hit == config.cache /\ dirs["cache"][n][mem[n].version] # Missing
           good == mem[n].digest \in {NoHash, dirs["cache"][n][mem[n].version]}
<1>0. /\ pc = "next" /\ n \in todo /\ Usable(n)
      /\ UNCHANGED <<config, manifest, registry, dirs, lock, torn>>
  BY DEF TakeLocked
<1>1. TypeOK BY DEF IInv, Pinned, LockAgrees
<1>2. mem[n] \in Entry BY <1>0, <1>1 DEF Usable, TypeOK
<1>3. CASE Return("mismatch")
  BY <1>0, <1>1, <1>3, ReturnInv DEF TypeOK
<1>4. CASE /\ hit => good
           /\ dep' = n
           /\ pkg' = n
           /\ res' = mem[n]
           /\ IF hit THEN pc' = "parse" /\ root' = "cache" ELSE pc' = "fetch" /\ UNCHANGED root
           /\ fresh' = FALSE
           /\ UNCHANGED <<todo, mem, changed, cancelled, tree, result>>
  <2> HIDE DEF hit, good
  <2>1. pc' \in {"parse", "fetch"} /\ root' \in {"registry", "cache", "extract"}
    BY <1>1, <1>4 DEF TypeOK
  <2>2. TypeOK'
    <3>1. res' \in Entry \cup {NoEntry} /\ res' # NoEntry BY <1>2, <1>4, Constants
    <3> QED BY <1>0, <1>1, <1>4, <2>1, <3>1 DEF TypeOK
  <2>3. Pinned' BY <1>0, <1>4, <2>2 DEF IInv, Pinned, LockAgrees, Matches, Spoils
  <2>4. MemoryInv' BY <1>0, <1>4, <2>1 DEF IInv, MemoryInv, Deps, Keeps
  <2>5. TreeInv' BY <1>0, <1>4, <2>1 DEF IInv, TreeInv, Deps, Keeps, Admitting, Matches, Spoils
  <2>6. DependencyInv'
    <3>1. mem[n] = lock[n] BY <1>0 DEF IInv, MemoryInv, TreeInv
    <3>2. Keeps(dep)' BY <1>0, <1>4, <3>1 DEF Keeps, Usable
    <3>3. pc' = "parse" => root' = "cache" /\ good BY <1>4, <2>1
    <3>4. pc' = "parse" => res'.digest \in {NoHash, Held(root)'}
      BY <1>0, <1>4, <3>3 DEF Held, good
    <3> QED BY <1>4, <2>1, <3>2, <3>3, <3>4 DEF DependencyInv, InDependency, Matches
  <2> QED BY <1>0, <2>1, <2>3, <2>4, <2>5, <2>6 DEF IInv, BeginInv
<1> QED BY <1>3, <1>4 DEF TakeLocked

\* The registry resolves what has no usable entry.
LEMMA ResolveFreshInv == ASSUME IInv, NEW n \in Names, ResolveFresh(n) PROVE IInv'
<1> USE DEF ResolveFresh, world, disk
<1>1. TypeOK BY DEF IInv, Pinned, LockAgrees
<1>2. /\ res' \in Entry /\ pkg' \in Names
      /\ Admitting => res'.version \in manifest[n]
  <2>1. CASE config.registry # "http"
    <3>1. PICK v \in manifest[n] :
            /\ registry[n][v] # Missing
            /\ res' = [version |-> v,
                       digest |-> IF config.registry = "git" THEN NoHash ELSE registry[n][v]]
      BY <2>1
    <3>2. registry \in Registry /\ manifest \in Manifest BY <1>1, ResolverAssumption DEF TypeOK
    <3>3. v \in Versions BY <3>2 DEF Manifest
    <3>4. registry[n][v] \in Contents BY <3>1, <3>2, <3>3 DEF Registry
    <3> QED BY <2>1, <3>1, <3>3, <3>4 DEF Entry
  <2>2. CASE config.registry = "http"
    <3>1. PICK a \in Answers : pkg' = a.name /\ res' = [version |-> a.version, digest |-> a.digest]
      BY <2>2
    <3>2. a \in Resolution BY ResolverAssumption
    <3> QED BY <2>2, <3>1, <3>2 DEF Resolution, Entry, Admitting
  <2> QED BY <2>1, <2>2
<1> HIDE DEF ResolveFresh
<1>3. /\ pc = "next" /\ pc' = "fetch" /\ n \in todo /\ dep' = n /\ fresh' = TRUE /\ ~ Usable(n)
      /\ UNCHANGED <<world, disk, cancelled, todo, root, mem, changed, tree, result>>
  BY DEF ResolveFresh
<1>4. TypeOK'
  <2>1. res' \in Entry \cup {NoEntry} /\ res' # NoEntry BY <1>2, Constants
  <2> QED BY <1>1, <1>2, <1>3, <2>1 DEF TypeOK
<1>5. Pinned' BY <1>3, <1>4 DEF IInv, Pinned, LockAgrees, Matches, Spoils
<1>6. MemoryInv' BY <1>3 DEF IInv, MemoryInv, Deps, Keeps
<1>7. TreeInv' BY <1>3 DEF IInv, TreeInv, Deps, Keeps, Admitting, Matches, Spoils
<1>8. DependencyInv'
  <2>1. mem[n] = lock[n] BY <1>3 DEF IInv, MemoryInv, TreeInv
  <2>2. ~ Keeps(n) BY <1>3, <2>1 DEF Keeps, Usable
  <2> QED BY <1>2, <1>3, <2>2 DEF DependencyInv, InDependency, Keeps, Admitting
<1> QED BY <1>3, <1>5, <1>6, <1>7, <1>8 DEF IInv, BeginInv

\* A fetch fills no directory but the one it extracts to.
LEMMA FetchInv == ASSUME IInv, Fetch PROVE IInv'
<1> USE DEF Fetch, world
<1>1. TypeOK BY DEF IInv, Pinned, LockAgrees
<1>2. InDependency BY DEF InDependency
<1>3. /\ root' \in {"registry", "cache", "extract"}
      /\ root' = "registry" => config.registry = "local"
      /\ root' = "cache" => config.registry = "http" /\ config.shared
  BY DEF FetchLocal, FetchHTTP, FetchGit, Extract
<1>4. dirs' \in [{"cache", "extract"} ->
                   [Names -> [Versions -> Contents \cup {Missing, Torn}]]]
  <2>1. Held("registry") \in Contents \cup {Missing, Torn} /\ res \in Entry
    BY <1>1, <1>2, InHand
  <2>2. CASE UNCHANGED dirs BY <1>1, <2>2 DEF TypeOK
  <2>3. ASSUME NEW s \in {"cache", "extract"}, Fill(s, Held("registry"))
        PROVE  dirs' \in [{"cache", "extract"} ->
                            [Names -> [Versions -> Contents \cup {Missing, Torn}]]]
    BY <1>1, <2>1, <2>3, FillTypes
  <2> QED BY <2>2, <2>3 DEF FetchLocal, FetchHTTP, FetchGit, Extract
<1>5. TypeOK' BY <1>1, <1>2, <1>3, <1>4 DEF TypeOK, InDependency
<1>6. Pinned' BY <1>5 DEF IInv, Pinned, LockAgrees, Matches, Spoils
<1>7. MemoryInv' BY DEF IInv, MemoryInv, Deps, Keeps
<1>8. TreeInv' BY DEF IInv, TreeInv, Deps, Keeps, Admitting, Matches, Spoils
<1>9. DependencyInv' BY <1>3 DEF IInv, DependencyInv, InDependency, Keeps, Admitting
<1> QED BY <1>6, <1>7, <1>8, <1>9 DEF IInv, BeginInv

\* The hash is compared; without a cache the entry is set at once.
LEMMA VerifyInv == ASSUME IInv, Verify PROVE IInv'
<1> USE DEF Verify, world, disk
<1>1. TypeOK /\ InDependency BY DEF IInv, Pinned, LockAgrees, InDependency
<1>2. res \in Entry /\ dep \in todo /\ dep \in Names BY <1>1, InHand
<1>3. CASE Return("mismatch")
  BY <1>1, <1>3, ReturnInv DEF TypeOK
<1>4. CASE /\ res.digest \in {NoHash, Held(root)}
           /\ IF config.cache
                THEN pc' = "put" /\ UNCHANGED <<mem, changed>>
                ELSE pc' = "parse" /\ SetEntry
           /\ UNCHANGED <<todo, iteration, cancelled, tree, result>>
  <2>1. \/ pc' = "put" /\ UNCHANGED <<mem, changed>>
        \/ pc' = "parse" /\ SetEntry
    BY <1>4
  <2>2. mem' \in [Names -> Entry \cup {NoEntry}] /\ changed' \in BOOLEAN
    BY <1>1, <1>2, <2>1 DEF TypeOK, SetEntry
  <2>3. TypeOK' BY <1>1, <1>4, <2>1, <2>2 DEF TypeOK, InDependency, iteration
  <2>4. Pinned' BY <1>4, <2>3 DEF IInv, Pinned, LockAgrees, Matches, Spoils
  <2>5. MemoryInv' /\ TreeInv'
    BY <1>1, <1>2, <1>4, <2>1, SetEntryInv
  <2>6. DependencyInv'
    <3>1. pc' = "parse" => mem'[dep] = res
      BY <1>1, <1>2, <2>1 DEF IInv, DependencyInv, SetEntry, TypeOK
    <3>2. UNCHANGED <<dep, res, fresh, root, Held(root)>> BY <1>4 DEF Held, iteration
    <3>3. pc' = "put" => config.cache BY <1>4
    <3> QED BY <1>1, <1>4, <2>1, <3>1, <3>2, <3>3
         DEF IInv, DependencyInv, InDependency, Keeps, Admitting, Matches
  <2> QED BY <2>1, <2>4, <2>5, <2>6 DEF IInv, BeginInv
<1> QED BY <1>3, <1>4

\* The cache is filled, torn or emptied; the directory in hand is another one, or
\* it is spoilt.
LEMMA PutInv == ASSUME IInv, Put PROVE IInv'
<1> USE DEF Put, world
<1>1. TypeOK /\ InDependency BY DEF IInv, Pinned, LockAgrees, InDependency
<1>2. res \in Entry /\ dep \in todo /\ dep \in Names BY <1>1, InHand
<1>3. PICK left \in {Held("cache"), Missing, Torn, Held(root)} : Fill("cache", left)
  OBVIOUS
<1>4. left \in Contents \cup {Missing, Torn}
  BY <1>1, InHand DEF TypeOK
<1>5. /\ dirs' \in [{"cache", "extract"} ->
                      [Names -> [Versions -> Contents \cup {Missing, Torn}]]]
      /\ dirs'["extract"] = dirs["extract"]
      /\ dirs'["cache"][pkg][res.version] = left
  BY <1>1, <1>2, <1>3, <1>4, FillTypes
<1>6. mem' \in [Names -> Entry \cup {NoEntry}] /\ changed' \in BOOLEAN
  BY <1>1, <1>2 DEF TypeOK, SetEntry
<1>0. UNCHANGED <<dep, pkg, res, fresh, root>> BY DEF iteration
<1>7. TypeOK' BY <1>0, <1>1, <1>2, <1>5, <1>6 DEF TypeOK, InDependency
<1>8. Pinned' BY <1>7 DEF IInv, Pinned, LockAgrees, Matches, Spoils
<1>9. MemoryInv' /\ TreeInv' BY SetEntryInv
<1>10. DependencyInv'
  <2>1. mem'[dep] = res
    BY <1>1, <1>2 DEF IInv, DependencyInv, SetEntry, TypeOK
  <2>2. res.digest \in {NoHash, Held(root)} BY DEF IInv, DependencyInv, InDependency
  <2>3. Matches(res.digest, Held(root))'
    <3>1. CASE root = "cache"
      <4>1. Held(root)' \in {Held(root), Missing, Torn} BY <1>0, <1>3, <1>5, <3>1 DEF Held
      <4>2. Spoils' BY <3>1 DEF IInv, DependencyInv, InDependency, Spoils
      <4> QED BY <1>0, <2>2, <4>1, <4>2 DEF Matches
    <3>2. CASE root # "cache"
      <4>1. Held(root)' = Held(root) BY <1>0, <1>1, <1>5, <3>2 DEF Held, TypeOK
      <4> QED BY <1>0, <2>2, <4>1 DEF Matches
    <3> QED BY <3>1, <3>2
  <2>4. Keeps(dep) \/ (Admitting => res.version \in manifest[dep])
    BY <1>1 DEF IInv, DependencyInv
  <2>5. root = "registry" => config.registry = "local"
    BY <1>1 DEF IInv, DependencyInv
  <2> QED BY <1>0, <2>1, <2>3, <2>4, <2>5 DEF DependencyInv, InDependency, Keeps, Admitting
<1> QED BY <1>8, <1>9, <1>10 DEF IInv, BeginInv

\* What is merged is what the entry says.
LEMMA ParseInv == ASSUME IInv, ParseExternalObjects PROVE IInv'
<1> USE DEF ParseExternalObjects, world, disk
<1> DEFINE r == [name |-> dep, version |-> res.version, content |-> Held(root)]
<1>1. TypeOK /\ InDependency BY DEF IInv, Pinned, LockAgrees, InDependency
<1>2. /\ res \in Entry /\ dep \in todo /\ dep \in Names /\ res.version \in Versions
      /\ Held(root) \in Contents \cup {Missing, Torn}
  BY <1>1, InHand DEF TypeOK
<1>3. r \in Package BY <1>2 DEF Package
<1>4. TypeOK' BY <1>1, <1>3 DEF TypeOK, Forget
<1>5. Pinned'
  <2>1. result' # "ok" BY <1>1 DEF TypeOK
  <2> HIDE DEF ParseExternalObjects
  <2> QED BY <1>4, <2>1 DEF Pinned, LockAgrees
<1>6. /\ mem[dep] = res /\ Matches(res.digest, Held(root))
      /\ Keeps(dep) \/ (Admitting => res.version \in manifest[dep])
  BY <1>1 DEF IInv, DependencyInv, InDependency
<1>7. MemoryInv' BY DEF IInv, MemoryInv, Deps, Keeps
<1>8. TreeInv'
  <2>1. tree' = tree \cup {r} /\ todo' = todo \ {dep} OBVIOUS
  <2>2. r.name = dep /\ r.version = res.version /\ r.content = Held(root) OBVIOUS
  <2>3. todo \subseteq Deps /\ {q.name : q \in tree} = Deps \ todo BY DEF IInv, TreeInv
  <2>4. {q.name : q \in tree'} = Deps \ todo' BY <1>2, <2>1, <2>2, <2>3
  <2>5. mem[dep] # NoEntry BY <1>2, <1>6, Constants
  <2>6. \A q \in tree' : /\ mem[q.name].version = q.version
                         /\ Matches(mem[q.name].digest, q.content)
    BY <1>6, <2>1, <2>2 DEF IInv, TreeInv
  <2> HIDE DEF r
  <2>7. \A n \in Deps \ todo' :
          mem[n] # NoEntry /\ (Keeps(n) \/ (Admitting => mem[n].version \in manifest[n]))
    BY <1>6, <2>1, <2>5 DEF IInv, TreeInv
  <2>8. UNCHANGED <<config, manifest, lock, mem>> OBVIOUS
  <2>9. \A q1, q2 \in tree' : q1.name = q2.name => q1 = q2
    <3>1. \A q \in tree : q.name # dep BY <1>2, <2>3
    <3>2. \A q1, q2 \in tree : q1.name = q2.name => q1 = q2 BY DEF IInv, TreeInv
    <3> HIDE DEF r
    <3> QED BY <2>1, <2>2, <3>1, <3>2
  <2> HIDE DEF ParseExternalObjects
  <2> HIDE DEF r
  <2> QED BY <2>1, <2>3, <2>4, <2>6, <2>7, <2>8, <2>9
       DEF TreeInv, Deps, Keeps, Admitting, Matches, Spoils
<1> QED BY <1>5, <1>7, <1>8 DEF IInv, BeginInv, DependencyInv, InDependency

\* The end of the loop, and of a build that changed nothing.
LEMMA FinishInv == ASSUME IInv, Finish PROVE IInv'
<1> USE DEF Finish, world, disk, working
<1>1. TypeOK BY DEF IInv, Pinned, LockAgrees
<1>2. CASE changed
  <2>1. TypeOK' BY <1>1, <1>2 DEF TypeOK
  <2>2. Pinned' BY <1>2, <2>1 DEF IInv, Pinned, LockAgrees, Matches, Spoils
  <2>3. MemoryInv' /\ TreeInv' BY <1>2 DEF IInv, MemoryInv, TreeInv, Deps, Keeps, Admitting, Matches, Spoils
  <2> QED BY <1>2, <2>2, <2>3 DEF IInv, BeginInv, DependencyInv, InDependency
<1>3. CASE ~ changed
  <2>1. Return("ok") /\ UNCHANGED <<config, manifest, registry, dirs, lock, torn, tree>>
    BY <1>3 DEF Return
  <2>2. TypeOK'
    <3>1. mem' \in [Names -> Entry \cup {NoEntry}] BY <2>1 DEF Return, NoLock
    <3> QED BY <1>1, <2>1, <3>1 DEF TypeOK, Return, Forget
  <2>3. \A r \in tree : /\ lock[r.name].version = r.version
                        /\ Matches(lock[r.name].digest, r.content)
    <3>1. CASE Deps # {} BY <1>3, <3>1 DEF IInv, MemoryInv, TreeInv
    <3>2. CASE Deps = {} BY <3>2 DEF IInv, TreeInv
    <3> QED BY <3>1, <3>2
  <2>4. Pinned' BY <2>1, <2>2, <2>3 DEF Pinned, LockAgrees, Matches, Spoils
  <2> QED BY <2>1, <2>4 DEF IInv, BeginInv, MemoryInv, TreeInv, DependencyInv,
                            InDependency, Return
<1> QED BY <1>2, <1>3

\* The lock file is written.
LEMMA WriteInv == ASSUME IInv, WriteLockFile PROVE IInv'
<1> USE DEF WriteLockFile, world
<1>1. TypeOK BY DEF IInv, Pinned, LockAgrees
<1>2. TypeOK'
  <2>1. mem' \in [Names -> Entry \cup {NoEntry}] BY DEF Return, NoLock
  <2> QED BY <1>1, <2>1 DEF TypeOK, Return, Forget
<1>3. tree' = tree BY DEF Return
<1>4. Pinned' BY <1>2, <1>3 DEF IInv, Pinned, LockAgrees, TreeInv, Matches, Spoils
<1> QED BY <1>4 DEF IInv, BeginInv, MemoryInv, TreeInv, DependencyInv, InDependency, Return

\* Every other way for a build to end.
LEMMA FailureInv ==
  ASSUME IInv, FetchFails \/ StopAtDependency \/ Fail \/ WriteLockFails \/ Crash
  PROVE  IInv'
<1> USE DEF world, disk
<1>1. TypeOK BY DEF IInv, Pinned, LockAgrees
<1>2. ASSUME pc = "fetch" \/ pc = "put", NEW s \in {"cache", "extract"},
             NEW left \in {Missing, Torn}, Fill(s, left)
      PROVE  dirs' \in [{"cache", "extract"} ->
                          [Names -> [Versions -> Contents \cup {Missing, Torn}]]]
  <2>1. res \in Entry BY <1>1, <1>2, InHand DEF InDependency
  <2> QED BY <1>1, <1>2, <2>1, FillTypes
<1>3. CASE FetchFails
  BY <1>1, <1>2, <1>3, ReturnInv DEF FetchFails, Extract, TypeOK
<1>4. CASE StopAtDependency \/ Fail
  BY <1>1, <1>4, ReturnInv DEF StopAtDependency, Fail, TypeOK
<1>5. CASE WriteLockFails
  <2>1. lock' \in [Names -> Entry \cup {NoEntry}] /\ torn' \in BOOLEAN
    BY <1>1, <1>5 DEF WriteLockFails, TypeOK, NoLock
  <2> QED BY <1>1, <1>5, <2>1, ReturnInv DEF WriteLockFails, TypeOK
<1>6. CASE Crash
  <2>1. dirs' \in [{"cache", "extract"} ->
                     [Names -> [Versions -> Contents \cup {Missing, Torn}]]]
    BY <1>1, <1>2, <1>6 DEF Crash, Extract, TypeOK
  <2> QED BY <1>1, <1>6, <2>1, ReturnInv DEF Crash, TypeOK
<1> QED BY <1>3, <1>4, <1>5, <1>6

\* What goes on around a build.
LEMMA SurroundingsInv ==
  ASSUME IInv,
         \/ Cancel \/ EditManifest \/ ChangeRegistry \/ Invalidate \/ RemoveLockFile
         \/ UNCHANGED vars
  PROVE  IInv'
<1> USE DEF world, disk, working
<1>1. TypeOK BY DEF IInv, Pinned, LockAgrees
<1>2. CASE Cancel \/ UNCHANGED vars
  <2>1. /\ UNCHANGED <<config, manifest, registry, dirs, lock, torn, pc, todo, dep, pkg, res,
                      fresh, root, mem, changed, tree, result>>
        /\ cancelled' = TRUE \/ cancelled' = cancelled
    BY <1>2 DEF Cancel, vars
  <2>2. TypeOK'
    <3>1. cancelled' \in BOOLEAN BY <1>1, <2>1 DEF TypeOK
    <3> QED BY <1>1, <2>1, <3>1 DEF TypeOK
  <2>3. Pinned' BY <2>1, <2>2 DEF IInv, Pinned, LockAgrees, Matches, Spoils
  <2>4. BeginInv' /\ MemoryInv' /\ TreeInv'
    BY <2>1 DEF IInv, BeginInv, MemoryInv, TreeInv, Deps, Keeps, Admitting, Matches, Spoils
  <2>5. DependencyInv'
    BY <2>1 DEF IInv, DependencyInv, InDependency, Keeps, Held, Admitting, Matches, Spoils
  <2> QED BY <2>1, <2>3, <2>4, <2>5 DEF IInv
<1>3. CASE EditManifest
  BY <1>3 DEF EditManifest, IInv, Pinned, LockAgrees, TypeOK, Matches, Spoils, Admitting, BeginInv, MemoryInv, TreeInv,
              DependencyInv, InDependency
<1>4. CASE ChangeRegistry
  <2>1. TypeOK' BY <1>1, <1>4 DEF ChangeRegistry, TypeOK
  <2>2. pc \in {"put", "parse"} => Held(root)' = Held(root)
    BY <1>4 DEF ChangeRegistry, IInv, DependencyInv, InDependency, Held
  <2> QED
    BY <1>4, <2>1, <2>2 DEF ChangeRegistry, IInv, Pinned, LockAgrees, BeginInv, MemoryInv,
                            TreeInv, DependencyInv, InDependency, Deps, Keeps, Admitting, Matches, Spoils
<1>5. CASE Invalidate
  <2>1. TypeOK' BY <1>1, <1>5 DEF Invalidate, TypeOK
  <2> QED
    BY <1>5, <2>1 DEF Invalidate, IInv, Pinned, LockAgrees, Matches, Spoils, Admitting, BeginInv, MemoryInv, TreeInv,
                      DependencyInv, InDependency
<1>6. CASE RemoveLockFile
  BY <1>6 DEF RemoveLockFile, IInv, Pinned, LockAgrees, TypeOK, Matches, Spoils, Admitting, BeginInv, MemoryInv, TreeInv,
              DependencyInv, InDependency
<1> QED BY <1>2, <1>3, <1>4, <1>5, <1>6

LEMMA NextInv == IInv /\ [Next]_vars => IInv'
BY ResolveInv, ReadLockInv, TakeLockedInv, ResolveFreshInv, FetchInv, VerifyInv, PutInv,
   ParseInv, FinishInv, WriteInv, FailureInv, SurroundingsInv
   DEF Next, Advance

LEMMA Invariant == Spec => []IInv
BY InitInv, NextInv, PTL DEF Spec

-----------------------------------------------------------------------------
(***************************************************************************)
(* What is merged was there                                                *)
(***************************************************************************)

\* A local registry gives a hash with every package.
HashInv ==
  config.registry = "local" =>
    /\ \A n \in Names : lock[n] = NoEntry \/ lock[n].digest # NoHash
    /\ \A n \in Names : mem[n] = NoEntry \/ mem[n].digest # NoHash
    /\ InDependency => res.digest # NoHash

\* The directory in hand is there once it is fetched, and that of a local registry
\* once it is verified.
ThereInv ==
  ~ Spoils =>
    /\ pc = "verify" => root = "registry" \/ Held(root) # Missing
    /\ pc \in {"put", "parse"} => Held(root) # Missing
    /\ \A r \in tree : r.content # Missing

LEMMA HashInvariant == Spec => []HashInv
<1>1. Init => HashInv BY DEF Init, HashInv, NoLock, InDependency
<1>2. ASSUME IInv, HashInv, [Next]_vars PROVE HashInv'
  <2> USE DEF world, disk, working, iteration, Return, Forget, NoLock
  <2>1. CASE Resolve \/ ReadLockFile
    BY <1>2, <2>1 DEF Resolve, ReadLockFile, HashInv, InDependency
  <2>2. CASE \E n \in Names : TakeLocked(n)
    <3>1. PICK n \in Names : TakeLocked(n) BY <2>2
    <3> QED BY <1>2, <3>1 DEF TakeLocked, Usable, HashInv, InDependency
  <2>3. CASE \E n \in Names : ResolveFresh(n)
    <3>1. PICK n \in Names : ResolveFresh(n) BY <2>3
    <3> QED BY <1>2, <3>1 DEF ResolveFresh, HashInv, Missing, NoHash
  <2>4. CASE Fetch \/ FetchFails \/ ParseExternalObjects
    BY <1>2, <2>4 DEF Fetch, FetchFails, ParseExternalObjects, HashInv, InDependency
  <2>5. CASE Verify \/ Put
    <3>1. InDependency /\ dep \in Names /\ mem \in [Names -> Entry \cup {NoEntry}]
      BY <1>2, <2>5 DEF Verify, Put, InDependency, IInv, Pinned, TypeOK
    <3> QED BY <1>2, <2>5, <3>1 DEF Verify, Put, SetEntry, HashInv, InDependency
  <2>6. CASE Finish \/ WriteLockFile \/ WriteLockFails
    BY <1>2, <2>6 DEF Finish, WriteLockFile, WriteLockFails, HashInv, InDependency
  <2>7. CASE StopAtDependency \/ Fail \/ Crash
    BY <1>2, <2>7 DEF StopAtDependency, Fail, Crash, HashInv, InDependency
  <2>8. CASE Cancel \/ ChangeRegistry \/ EditManifest \/ Invalidate \/ RemoveLockFile
    BY <1>2, <2>8
       DEF Cancel, ChangeRegistry, EditManifest, Invalidate, RemoveLockFile, HashInv, InDependency
  <2>9. CASE UNCHANGED vars
    BY <1>2, <2>9 DEF vars, HashInv, InDependency
  <2> QED BY <1>2, <2>1, <2>2, <2>3, <2>4, <2>5, <2>6, <2>7, <2>8, <2>9 DEF Next, Advance
<1> QED BY <1>1, <1>2, Invariant, PTL DEF Spec

LEMMA ThereInvariant == Spec => []ThereInv
<1>1. Init => ThereInv BY DEF Init, ThereInv
<1>2. ASSUME IInv, HashInv, ThereInv, [Next]_vars PROVE ThereInv'
  <2> USE DEF world, disk, working, iteration, Return, Forget, Spoils
  <2>0. TypeOK BY <1>2 DEF IInv, Pinned
  <2>1. CASE Resolve \/ ReadLockFile
    BY <1>2, <2>1 DEF Resolve, ReadLockFile, ThereInv
  <2>2. CASE \E n \in Names : TakeLocked(n) \/ ResolveFresh(n)
    BY <1>2, <2>2 DEF TakeLocked, ResolveFresh, ThereInv, Held
  <2>3. CASE Fetch
    <3>1. InDependency /\ res \in Entry BY <2>0, <2>3, InHand DEF Fetch, InDependency
    <3>2. CASE FetchLocal
      BY <1>2, <2>3, <3>2 DEF Fetch, FetchLocal, ThereInv
    <3>3. CASE FetchHTTP
      <4>1. Held("registry") \in Contents \cup {Missing, Torn} /\ Extract \in {"cache", "extract"}
        BY <2>0, <3>1, InHand DEF Extract
      <4>2. dirs'[Extract][pkg][res.version] # Missing
        BY <2>0, <3>1, <3>3, <4>1, FillTypes DEF FetchHTTP
      <4> QED BY <1>2, <2>3, <3>3, <4>1, <4>2 DEF Fetch, FetchHTTP, ThereInv, Held, Extract
    <3>4. CASE FetchGit
      <4>1. Held("registry") \in Contents \cup {Missing, Torn} BY <2>0, <3>1, InHand
      <4>2. dirs'["extract"][pkg][res.version] # Missing
        BY <2>0, <3>1, <3>4, <4>1, FillTypes DEF FetchGit, Held
      <4> QED BY <1>2, <2>3, <3>4, <4>2 DEF Fetch, FetchGit, ThereInv, Held
    <3> QED BY <2>3, <3>2, <3>3, <3>4 DEF Fetch
  <2>4. CASE Verify
    <3>1. InDependency BY <2>4 DEF Verify, InDependency
    <3>2. ~ Spoils /\ pc' # "idle" => Held(root) # Missing
      <4>1. root = "registry" => config.registry = "local"
        BY <1>2, <2>4 DEF Verify, IInv, DependencyInv, InDependency
      <4>2. pc' # "idle" => res.digest \in {NoHash, Held(root)} BY <2>4 DEF Verify
      <4> QED
        BY <1>2, <2>4, <3>1, <4>1, <4>2 DEF Verify, HashInv, ThereInv, Missing, NoHash
    <3> QED BY <1>2, <2>4, <3>2 DEF Verify, ThereInv, Held
  <2>5. CASE Put
    <3>1. InDependency BY <2>5 DEF Put, InDependency
    <3>2. root = "cache" => Spoils
      BY <1>2, <2>5, <3>1 DEF Put, IInv, DependencyInv
    <3>3. root # "cache" => Held(root)' = Held(root)
      <4>1. PICK left \in Contents \cup {Missing, Torn} : Fill("cache", left)
        BY <2>0, <2>5, <3>1, InHand DEF Put, TypeOK
      <4>2. res \in Entry /\ root \in {"registry", "cache", "extract"}
        BY <2>0, <3>1, InHand DEF TypeOK
      <4>3. root = "extract" => dirs'["extract"] = dirs["extract"]
        BY <2>0, <4>1, <4>2, FillTypes
      <4> QED BY <2>5, <4>2, <4>3 DEF Put, Held
    <3> QED BY <1>2, <2>5, <3>2, <3>3 DEF Put, ThereInv
  <2>6. CASE ParseExternalObjects
    BY <1>2, <2>6 DEF ParseExternalObjects, ThereInv
  <2>7. CASE FetchFails \/ Finish \/ WriteLockFile \/ WriteLockFails
    BY <1>2, <2>7 DEF FetchFails, Finish, WriteLockFile, WriteLockFails, ThereInv
  <2>8. CASE StopAtDependency \/ Fail \/ Crash
    BY <1>2, <2>8 DEF StopAtDependency, Fail, Crash, ThereInv
  <2>9. CASE ChangeRegistry
    <3>1. pc \in {"put", "parse"} => root # "registry"
      BY <1>2, <2>9 DEF ChangeRegistry, IInv, DependencyInv, InDependency
    <3> QED BY <1>2, <2>9, <3>1 DEF ChangeRegistry, ThereInv, Held
  <2>10. CASE Cancel \/ EditManifest \/ Invalidate \/ RemoveLockFile
    BY <1>2, <2>10 DEF Cancel, EditManifest, Invalidate, RemoveLockFile, ThereInv, Held
  <2>11. CASE UNCHANGED vars
    BY <1>2, <2>11 DEF vars, ThereInv, Held
  <2> QED
    BY <1>2, <2>1, <2>2, <2>3, <2>4, <2>5, <2>6, <2>7, <2>8, <2>9, <2>10, <2>11
       DEF Next, Advance
<1> QED BY <1>1, <1>2, Invariant, HashInvariant, PTL DEF Spec

(* After a build that succeeds the lock file has the version and the hash  *)
(* of everything that was merged: for every registry, cache and manifest,  *)
(* and whatever an HTTP registry answers.  A registry may give no hash     *)
(* (resolver.go:346), and where it extracts into the directory of the      *)
(* cache, a package may be gone, in whole or in part (cache.go:77).  But   *)
(* for that, what was merged was there.                                    *)
THEOREM BuildsArePinned == Spec => []LockPinsTheBuild
<1>1. IInv /\ ThereInv => LockPinsTheBuild
  BY DEF IInv, Pinned, ThereInv, LockPinsTheBuild, FetchedIsMerged
<1> QED BY <1>1, Invariant, ThereInvariant, PTL

-----------------------------------------------------------------------------
(***************************************************************************)
(* The refinement of ReproducibleBuild                                     *)
(***************************************************************************)

\* The lock file is written at the end of the loop, and only for dependencies.
EndInv ==
  pc # "idle" =>
    /\ changed => Deps # {}
    /\ pc = "write" => todo = {} /\ changed

LEMMA EndInvariant == Spec => []EndInv
<1>1. Init => EndInv BY DEF Init, EndInv
<1>2. ASSUME IInv, EndInv, [Next]_vars PROVE EndInv'
  <2> USE DEF world, disk, working, Return
  <2>1. CASE Resolve \/ ReadLockFile
    BY <1>2, <2>1 DEF Resolve, ReadLockFile, IInv, BeginInv, EndInv, Deps
  <2>2. CASE \E n \in Names : TakeLocked(n) \/ ResolveFresh(n)
    BY <1>2, <2>2 DEF TakeLocked, ResolveFresh, EndInv, Deps
  <2>3. CASE Fetch \/ FetchFails \/ ParseExternalObjects
    BY <1>2, <2>3 DEF Fetch, FetchFails, ParseExternalObjects, EndInv, Deps
  <2>4. CASE Verify \/ Put
    <3>1. dep \in Deps
      BY <1>2, <2>4, InHand DEF IInv, TreeInv, Pinned, LockAgrees, InDependency, Verify, Put
    <3> QED BY <1>2, <2>4, <3>1 DEF Verify, Put, SetEntry, EndInv, Deps
  <2>5. CASE Finish \/ WriteLockFile \/ WriteLockFails
    BY <1>2, <2>5 DEF Finish, WriteLockFile, WriteLockFails, EndInv, Deps
  <2>6. CASE StopAtDependency \/ Fail \/ Crash
    BY <1>2, <2>6 DEF StopAtDependency, Fail, Crash, EndInv
  <2>7. CASE Cancel \/ ChangeRegistry
    BY <1>2, <2>7 DEF Cancel, ChangeRegistry, EndInv, Deps
  <2>8. CASE EditManifest \/ Invalidate \/ RemoveLockFile
    BY <1>2, <2>8 DEF EditManifest, Invalidate, RemoveLockFile, EndInv
  <2>9. CASE UNCHANGED vars
    BY <1>2, <2>9 DEF vars, EndInv, Deps
  <2> QED BY <1>2, <2>1, <2>2, <2>3, <2>4, <2>5, <2>6, <2>7, <2>8, <2>9 DEF Next, Advance
<1> QED BY <1>1, <1>2, Invariant, PTL DEF Spec

\* What a build does before its end is not seen from outside.
LEMMA InsideABuild ==
  ASSUME UNCHANGED <<config, manifest, lock, torn, result>>,
         result # "ok" \/ UNCHANGED tree
  PROVE  UNCHANGED R!vars
BY DEF R!vars, Output, Status, Spoils

\* A build that fails without touching the lock file stops.
LEMMA AFailedBuildStops ==
  ASSUME result = "running", UNCHANGED <<config, manifest, lock, torn>>,
         result' \in {"failed", "mismatch", "cancelled", "crashed"}
  PROVE  R!Stop
BY DEF R!Stop, Output, Status, Spoils

\* A build that succeeds with an empty list of things to do has built what its
\* lock file says.
LEMMA ASuccessfulBuildSucceeds ==
  ASSUME TypeOK, TreeInv, NEW new \in [Names -> Entry \cup {NoEntry}],
         pc \in {"next", "write"}, todo = {}, Return("ok"), lock' = new,
         UNCHANGED <<config, manifest, torn>>,
         torn => Deps = {},
         \A n \in Names : n \notin Deps \/ Keeps(n) => new[n] = lock[n],
         Deps # {} => new = mem
  PROVE  \E gone \in SUBSET Names : R!Succeed(new, gone)
<1>1. result = "running" /\ result' = "ok" /\ tree' = tree BY DEF TypeOK, Return
<1>2. R!Wanted = Deps /\ \A n : R!Valid(n) <=> Keeps(n)
  BY DEF R!Wanted, R!Valid, Deps, Keeps
<1>3. Status = "running" /\ Status' = "ok" BY <1>1 DEF Status
<1>4. \A n \in Deps : /\ n \in Names
                      /\ new[n] # NoEntry
                      /\ Keeps(n) \/ (Admitting => new[n].version \in manifest[n])
  BY DEF TreeInv, Deps
<1>5. /\ \A r \in tree : /\ r \in Package /\ r.name \in Deps
                         /\ new[r.name].version = r.version
                         /\ Matches(new[r.name].digest, r.content)
      /\ \A n \in Deps : \E r \in tree : r.name = n
      /\ \A q, r \in tree : q.name = r.name => q = r
  <2>1. {r.name : r \in tree} = Deps BY DEF TreeInv
  <2>2. \A r \in tree : r.name \in Deps /\ r \in Package BY <2>1 DEF TypeOK
  <2>3. \A n \in Deps : \E r \in tree : r.name = n BY <2>1
  <2>4. \A r \in tree : new = mem BY <2>2
  <2>5. \A r \in tree : /\ mem[r.name].version = r.version
                        /\ Matches(mem[r.name].digest, r.content)
    BY DEF TreeInv
  <2>6. \A q, r \in tree : q.name = r.name => q = r BY DEF TreeInv
  <2> QED BY <2>2, <2>3, <2>4, <2>5, <2>6
<1> DEFINE gone == {n \in Names : \E r \in tree : /\ r.name = n
                                                   /\ Spoils /\ r.content \in {Missing, Torn}}
           shown(r) == [r EXCEPT !.content =
                          IF new[r.name].digest = NoHash \/ @ = Torn THEN Missing ELSE @]
           pin(n) == [name    |-> n,
                      version |-> new[n].version,
                      content |-> IF n \in gone THEN Missing ELSE new[n].digest]
<1>6. Output' = {pin(n) : n \in Deps}
  <2>1. Output' = {shown(r) : r \in tree} BY <1>1 DEF Output
  <2>2. \A r \in tree : shown(r) = pin(r.name)
    <3> SUFFICES ASSUME NEW r \in tree PROVE shown(r) = pin(r.name)
      OBVIOUS
    <3>1. /\ r = [name |-> r.name, version |-> r.version, content |-> r.content]
          /\ r.name \in Names
          /\ new[r.name].version = r.version
          /\ Matches(new[r.name].digest, r.content)
      BY <1>5 DEF Package
    <3>2. r.name \in gone <=> Spoils /\ r.content \in {Missing, Torn}
      BY <1>5, <3>1
    <3>3. new[r.name].digest \in Contents \cup {NoHash}
      BY <3>1 DEF Entry, NoEntry, NoHash
    <3>4. Torn \notin Contents \cup {NoHash}
      BY Constants DEF Torn, NoHash
    <3> HIDE DEF gone
    <3> QED BY <3>1, <3>2, <3>3, <3>4 DEF Matches, Missing, NoHash
  <2> HIDE DEF shown, pin, gone
  <2>3. {shown(r) : r \in tree} = {pin(n) : n \in Deps} BY <1>5, <2>2
  <2> QED BY <2>1, <2>3
<1>7. ~ Spoils => gone = {}
  OBVIOUS
<1>8. gone \in SUBSET Names
  OBVIOUS
<1>9. UNCHANGED <<config, manifest, torn, Spoils>>
  BY DEF Spoils
<1> HIDE DEF gone
<1>10. R!Succeed(new, gone)
  BY <1>2, <1>3, <1>4, <1>6, <1>7, <1>9 DEF R!Succeed, Admitting
<1> QED BY <1>8, <1>10

LEMMA InitRefines == Init => R!Init
<1> SUFFICES ASSUME Init PROVE R!Init
  OBVIOUS
<1>1. config.checked \in BOOLEAN BY ConfigTypes DEF Init
<1>2. lock = R!NoPins BY DEF Init, NoLock, R!NoPins
<1>3. Output = {} /\ Status = "idle" BY DEF Init, Output, Status
<1>4. (config.registry # "http") \in BOOLEAN /\ (~ Spoils) \in BOOLEAN
  OBVIOUS
<1> QED BY <1>1, <1>2, <1>3, <1>4 DEF Init, R!Init

\* The status is that of a build exactly while there is one.
LEMMA StatusOfABuild == ASSUME TypeOK PROVE Status = "running" <=> pc # "idle"
BY DEF TypeOK, Status

\* Every step is a step of the abstract build, or is not seen.
LEMMA StepRefines ==
  ASSUME IInv, EndInv, [Next]_vars
  PROVE  [R!Next]_(R!vars)
<1> USE DEF world, disk, working
<1>1. TypeOK /\ MemoryInv /\ TreeInv BY DEF IInv, Pinned, LockAgrees
<1>2. CASE Resolve
  <2>1. Status # "running" /\ Status' = "running" /\ Output' = {}
    BY <1>1, <1>2, StatusOfABuild DEF Resolve, Status, Output
  <2>2. R!Begin BY <1>2, <2>1 DEF Resolve, R!Begin, Spoils
  <2> QED BY <2>2 DEF R!Next
<1>3. ASSUME pc # "idle", UNCHANGED <<config, manifest, lock, torn>>,
             result' = result \/ result' \in {"failed", "mismatch", "cancelled", "crashed"}
      PROVE  [R!Next]_(R!vars)
  <2>1. result = "running" BY <1>1, <1>3 DEF TypeOK
  <2>2. CASE result' = result BY <1>3, <2>1, <2>2, InsideABuild
  <2>3. CASE result' \in {"failed", "mismatch", "cancelled", "crashed"}
    BY <1>3, <2>1, <2>3, AFailedBuildStops DEF R!Next
  <2> QED BY <1>3, <2>2, <2>3
<1>4. CASE ReadLockFile
  BY <1>3, <1>4 DEF ReadLockFile, Return
<1>5. CASE \E n \in Names : TakeLocked(n) \/ ResolveFresh(n)
  BY <1>3, <1>5 DEF TakeLocked, ResolveFresh, Return
<1>6. CASE Fetch \/ FetchFails \/ Verify \/ Put \/ ParseExternalObjects
  BY <1>3, <1>6 DEF Fetch, FetchFails, Verify, Put, ParseExternalObjects, Return
<1>7. CASE StopAtDependency \/ Fail \/ Crash
  BY <1>3, <1>7 DEF StopAtDependency, Fail, Crash, Return
<1>8. CASE Finish
  <2>1. CASE changed BY <1>3, <1>8, <2>1 DEF Finish
  <2>2. CASE ~ changed
    <3>1. /\ pc = "next" /\ todo = {} /\ Return("ok")
          /\ UNCHANGED <<config, manifest, torn>> /\ lock' = lock
      BY <1>8, <2>2 DEF Finish
    <3>2. lock \in [Names -> Entry \cup {NoEntry}] BY <1>1 DEF TypeOK
    <3>3. (torn => Deps = {}) /\ (Deps # {} => lock = mem)
      BY <1>1, <2>2, <3>1 DEF MemoryInv
    <3>4. \E gone \in SUBSET Names : R!Succeed(lock, gone) BY <1>1, <3>1, <3>2, <3>3, ASuccessfulBuildSucceeds
    <3> QED BY <3>2, <3>4 DEF R!Next
  <2> QED BY <2>1, <2>2
<1>9. CASE WriteLockFile
  <2>1. /\ pc = "write" /\ Return("ok") /\ lock' = mem
        /\ UNCHANGED <<config, manifest, torn>>
    BY <1>9 DEF WriteLockFile
  <2>2. todo = {} /\ Deps # {} BY <2>1 DEF EndInv
  <2>3. mem \in [Names -> Entry \cup {NoEntry}] BY <1>1 DEF TypeOK
  <2>4. ~ torn /\ \A n \in Names : n \notin Deps \/ Keeps(n) => mem[n] = lock[n]
    BY <1>1, <2>1, <2>2 DEF MemoryInv
  <2>5. \E gone \in SUBSET Names : R!Succeed(mem, gone) BY <1>1, <2>1, <2>2, <2>3, <2>4, ASuccessfulBuildSucceeds
  <2> QED BY <2>3, <2>5 DEF R!Next
<1>10. CASE WriteLockFails
  <2>1. CASE UNCHANGED <<lock, torn>>
    BY <1>3, <1>10, <2>1 DEF WriteLockFails, Return
  <2>2. CASE lock' = NoLock /\ torn' = TRUE
    <3>1. result = "running" /\ result' = "failed" BY <1>1, <1>10 DEF TypeOK, WriteLockFails, Return
    <3>2. /\ Status = "running" /\ Status' = "failed" /\ Output = {} /\ Output' = {}
      BY <3>1 DEF Status, Output
    <3>3. lock' = R!NoPins BY <2>2 DEF NoLock, R!NoPins
    <3>4. R!Lose BY <1>10, <2>2, <3>2, <3>3 DEF WriteLockFails, R!Lose, Spoils
    <3> QED BY <3>4 DEF R!Next
  <2> QED BY <1>10, <2>1, <2>2 DEF WriteLockFails
<1>11. CASE EditManifest
  <2>1. Status # "running" BY <1>1, <1>11, StatusOfABuild DEF EditManifest
  <2>2. R!Edit BY <1>11, <2>1 DEF EditManifest, R!Edit, Status, Output, Spoils
  <2> QED BY <2>2 DEF R!Next
<1>12. CASE RemoveLockFile
  <2>1. Status # "running" BY <1>1, <1>12, StatusOfABuild DEF RemoveLockFile
  <2>2. R!Repair BY <1>12, <2>1 DEF RemoveLockFile, R!Repair, Status, Output, Spoils
  <2> QED BY <2>2 DEF R!Next
<1>13. CASE Cancel \/ ChangeRegistry \/ Invalidate \/ UNCHANGED vars
  BY <1>13, InsideABuild DEF Cancel, ChangeRegistry, Invalidate, vars
<1> QED BY <1>2, <1>4, <1>5, <1>6, <1>7, <1>8, <1>9, <1>10, <1>11, <1>12, <1>13
        DEF Next, Advance

(* Builds are reproducible: seen from outside, a build is one step that keeps  *)
(* the pins that are still good and uses what the pins say, for every way of   *)
(* putting the resolver together.  New pins are admitted unless an HTTP        *)
(* registry chose them (http_registry.go:108), and packages are whole unless   *)
(* the registry extracts into the directory of the cache (cache.go:77).        *)
THEOREM BuildsAreReproducible == Spec => ImplementsReproducibleBuild
BY InitRefines, StepRefines, Invariant, EndInvariant, PTL
   DEF Spec, R!Spec, ImplementsReproducibleBuild

-----------------------------------------------------------------------------
(***************************************************************************)
(* What the liveness of a build rests on                                   *)
(***************************************************************************)

\* A manifest is a file: it mentions finitely many packages.
FiniteManifests == \A m \in Manifests : IsFiniteSet({n \in Names : m[n] # {}})

LoopInv ==
  /\ manifest \in Manifests
  /\ pc \in {"idle", "read", "next", "fetch", "verify", "put", "parse", "write"}
  /\ IsFiniteSet(todo)
  /\ InDependency => dep \in todo
  /\ pc \in {"idle", "write"} => todo = {}

\* The most steps a build has left: five for each dependency that is to be taken,
\* and the reading and the writing of the lock file around them.
StepsLeft ==
  5 * Cardinality(todo) + (CASE pc = "read"   -> 3
                             [] pc = "next"   -> 2
                             [] pc = "write"  -> 1
                             [] pc = "fetch"  -> 1
                             [] pc = "put"    -> -1
                             [] pc = "parse"  -> -2
                              [] OTHER         -> 0)

LEMMA LoopInvariant == ASSUME FiniteManifests PROVE Spec => []LoopInv
<1>1. Init => LoopInv
  BY FS_EmptySet DEF Init, LoopInv, InDependency
<1>2. LoopInv /\ [Next]_vars => LoopInv'
  <2> SUFFICES ASSUME LoopInv, [Next]_vars PROVE LoopInv'
    OBVIOUS
  <2>1. \A why : Return(why) => pc' = "idle" /\ todo' = {}
    BY DEF Return
  <2>2. IsFiniteSet({})
    BY FS_EmptySet
  <2>3. manifest' \in Manifests
    BY DEF LoopInv, Next, Advance, Resolve, ReadLockFile, TakeLocked, ResolveFresh, Fetch,
           FetchFails, Verify, Put, ParseExternalObjects, StopAtDependency, Fail, Finish,
           WriteLockFile, WriteLockFails, Crash, Cancel, EditManifest, ChangeRegistry,
           Invalidate, RemoveLockFile, world, vars
  <2>4. CASE \E why : Return(why)
    BY <2>1, <2>2, <2>3, <2>4 DEF LoopInv, InDependency
  <2>5. CASE Resolve
    BY <2>3, <2>5 DEF LoopInv, Resolve, Deps, FiniteManifests, InDependency
  <2>6. CASE ParseExternalObjects
    <3>1. IsFiniteSet(todo') BY <2>6, FS_RemoveElement DEF LoopInv, ParseExternalObjects
    <3> QED BY <2>3, <2>6, <3>1 DEF LoopInv, ParseExternalObjects, InDependency
  <2>7. CASE ReadLockFile \/ (\E n \in Names : TakeLocked(n) \/ ResolveFresh(n)) \/ Fetch \/ FetchFails
    BY <2>3, <2>4, <2>7 DEF LoopInv, ReadLockFile, TakeLocked, ResolveFresh, Fetch, FetchFails, InDependency
  <2>8. CASE Verify \/ Put \/ StopAtDependency \/ Fail \/ Finish \/ WriteLockFile \/ WriteLockFails \/ Crash
    BY <2>3, <2>4, <2>8 DEF LoopInv, Verify, Put, StopAtDependency, Fail, Finish, WriteLockFile,
           WriteLockFails, Crash, working, Return, Forget, iteration, InDependency
  <2>9. CASE Cancel \/ EditManifest \/ ChangeRegistry \/ Invalidate \/ RemoveLockFile \/ UNCHANGED vars
    BY <2>3, <2>9 DEF LoopInv, Cancel, EditManifest, ChangeRegistry, Invalidate, RemoveLockFile,
           vars, working, InDependency
  <2> QED BY <2>5, <2>6, <2>7, <2>8, <2>9 DEF Next, Advance
<1> QED BY <1>1, <1>2, PTL DEF Spec

LEMMA StepsLeftType ==
  LoopInv => StepsLeft \in Nat /\ (pc # "idle" => StepsLeft > 0) /\ (pc = "idle" => StepsLeft = 0)
<1> SUFFICES ASSUME LoopInv
             PROVE  StepsLeft \in Nat /\ (pc # "idle" => StepsLeft > 0) /\ (pc = "idle" => StepsLeft = 0)
  OBVIOUS
<1>1. Cardinality(todo) \in Nat /\ (todo = {} <=> Cardinality(todo) = 0)
  BY FS_CardinalityType, FS_EmptySet DEF LoopInv
<1>2. InDependency => Cardinality(todo) > 0
  BY <1>1 DEF LoopInv
<1> HIDE DEF InDependency
<1> QED BY <1>1, <1>2 DEF LoopInv, StepsLeft, InDependency

LEMMA StepsLeftFalls ==
  ASSUME LoopInv, LoopInv', StepsLeft \in Nat, StepsLeft' \in Nat,
         pc # "idle" => StepsLeft > 0, pc' = "idle" => StepsLeft' = 0, Next
  PROVE  /\ Resolve => StepsLeft' <= 5 * Cardinality(Deps) + 3
         /\ Advance => StepsLeft' < StepsLeft
         /\ pc # "idle" => StepsLeft' <= StepsLeft
<1>1. PICK k : k = Cardinality(todo)
  OBVIOUS
<1>2. k \in Nat
  BY <1>1, FS_CardinalityType DEF LoopInv
<1>3. CASE Resolve
  <2>1. StepsLeft' \in {5 * Cardinality(Deps) + 2, 5 * Cardinality(Deps) + 3}
    BY <1>3 DEF Resolve, StepsLeft
  <2>2. pc = "idle" /\ ~ Advance
    BY <1>3 DEF Resolve, Advance, ReadLockFile, TakeLocked, ResolveFresh, Fetch, FetchFails, Verify,
           Put, ParseExternalObjects, StopAtDependency, Fail, Finish, WriteLockFile, WriteLockFails
  <2>3. Cardinality(Deps) \in Nat
    <3>1. IsFiniteSet(Deps) BY <1>3 DEF LoopInv, Resolve
    <3> QED BY <3>1, FS_CardinalityType
  <2> QED BY <2>1, <2>2, <2>3
<1>4. CASE pc # "idle" /\ pc' = "idle"
  BY <1>4 DEF Resolve
<1>5. CASE pc # "idle" /\ Advance /\ pc' # "idle" /\ todo' = todo
  <2>1. StepsLeft' = 5 * k + (CASE pc' = "read"   -> 3
                             [] pc' = "next"   -> 2
                             [] pc' = "write"  -> 1
                             [] pc' = "fetch"  -> 1
                             [] pc' = "put"    -> -1
                             [] pc' = "parse"  -> -2
                             [] OTHER         -> 0)
    BY <1>1, <1>5 DEF StepsLeft
  <2>2. \/ pc = "read" /\ pc' = "next"
        \/ pc = "next" /\ pc' \in {"parse", "fetch", "write"}
        \/ pc = "fetch" /\ pc' = "verify"
        \/ pc = "verify" /\ pc' \in {"put", "parse"}
        \/ pc = "put" /\ pc' = "parse"
    <3>1. ~ ParseExternalObjects
      BY <1>5 DEF LoopInv, InDependency, ParseExternalObjects
    <3> QED
      BY <1>5, <3>1 DEF Advance, ReadLockFile, TakeLocked, ResolveFresh, Fetch, FetchFails, Verify, Put,
           StopAtDependency, Fail, Finish, WriteLockFile, WriteLockFails, Return
  <2>3. StepsLeft' < StepsLeft
    BY <1>1, <1>2, <2>1, <2>2 DEF StepsLeft
  <2> QED BY <1>5, <2>3 DEF Resolve
<1>6. CASE ParseExternalObjects
  <2>1. Cardinality(todo') = k - 1
    BY <1>1, <1>6, FS_RemoveElement DEF LoopInv, InDependency, ParseExternalObjects
  <2>2. StepsLeft = 5 * k - 2 /\ StepsLeft' = 5 * (k - 1) + 2
    BY <1>1, <1>2, <1>6, <2>1 DEF StepsLeft, ParseExternalObjects
  <2> QED BY <1>2, <1>6, <2>2 DEF Resolve, ParseExternalObjects
<1>7. CASE Cancel \/ EditManifest \/ ChangeRegistry \/ Invalidate \/ RemoveLockFile
  <2>1. pc' = pc /\ todo' = todo
    BY <1>7 DEF Cancel, EditManifest, ChangeRegistry, Invalidate, RemoveLockFile, working
  <2>2. ~ Advance
    BY <2>1 DEF Advance, ReadLockFile, TakeLocked, ResolveFresh, Fetch, FetchFails, Verify, Put,
           ParseExternalObjects, StopAtDependency, Fail, Finish, WriteLockFile, WriteLockFails, Return
  <2>3. StepsLeft' = StepsLeft
    BY <2>1 DEF StepsLeft
  <2> QED BY <2>1, <2>2, <2>3 DEF Resolve
<1>8. CASE Advance
  <2>1. pc # "idle"
    BY <1>8 DEF Advance, ReadLockFile, TakeLocked, ResolveFresh, Fetch, FetchFails, Verify, Put,
           ParseExternalObjects, StopAtDependency, Fail, Finish, WriteLockFile, WriteLockFails
  <2>2. ParseExternalObjects \/ pc' = "idle" \/ todo' = todo
    BY <1>8 DEF Advance, ReadLockFile, TakeLocked, ResolveFresh, Fetch, FetchFails, Verify, Put,
           StopAtDependency, Fail, Finish, WriteLockFile, WriteLockFails, Return, working, iteration, Forget
  <2> QED BY <1>4, <1>5, <1>6, <1>8, <2>1, <2>2
<1>9. Crash => pc # "idle" /\ pc' = "idle"
  BY DEF Crash, Return
<1> QED BY <1>3, <1>4, <1>7, <1>8, <1>9 DEF Next

(* A build of k dependencies takes at most 5 * k + 3 steps: each of its    *)
(* steps leaves fewer, and nothing that happens around it leaves more, so  *)
(* that neither a registry that changes nor a cache that fails keeps it    *)
(* going (Resolve in resolver.go).                                         *)
THEOREM BuildsComeToAnEnd ==
  ASSUME FiniteManifests
  PROVE  /\ Spec => [](StepsLeft \in Nat)
         /\ Spec => [][/\ Resolve => StepsLeft' <= 5 * Cardinality(Deps) + 3
                       /\ Advance => StepsLeft' < StepsLeft
                       /\ pc # "idle" => StepsLeft' <= StepsLeft]_vars
<1>1. Spec => [](StepsLeft \in Nat)
  BY LoopInvariant, StepsLeftType, PTL
<1>2. Spec => [][/\ Resolve => StepsLeft' <= 5 * Cardinality(Deps) + 3
                 /\ Advance => StepsLeft' < StepsLeft
                 /\ pc # "idle" => StepsLeft' <= StepsLeft]_vars
  <2>1. /\ LoopInv /\ LoopInv'
        /\ StepsLeft \in Nat /\ (pc # "idle" => StepsLeft > 0) /\ (pc = "idle" => StepsLeft = 0)
        /\ (StepsLeft \in Nat /\ (pc # "idle" => StepsLeft > 0) /\ (pc = "idle" => StepsLeft = 0))'
        /\ [Next]_vars
        => [/\ Resolve => StepsLeft' <= 5 * Cardinality(Deps) + 3
            /\ Advance => StepsLeft' < StepsLeft
            /\ pc # "idle" => StepsLeft' <= StepsLeft]_vars
    <3> SUFFICES ASSUME LoopInv, LoopInv', StepsLeft \in Nat, StepsLeft' \in Nat,
                        pc # "idle" => StepsLeft > 0, pc' = "idle" => StepsLeft' = 0, Next
                 PROVE  /\ Resolve => StepsLeft' <= 5 * Cardinality(Deps) + 3
                        /\ Advance => StepsLeft' < StepsLeft
                        /\ pc # "idle" => StepsLeft' <= StepsLeft
      OBVIOUS
    <3> QED BY StepsLeftFalls
  <2> QED BY <2>1, LoopInvariant, StepsLeftType, PTL DEF Spec
<1> QED BY <1>1, <1>2
=============================================================================
