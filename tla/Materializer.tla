---------------------------- MODULE Materializer ----------------------------
(***************************************************************************)
(* The materializer: the last stage but one (internal/adapter/stage/       *)
(* materializer) and the file systems it writes to: OSMaterializer, which  *)
(* the command line uses, and MemFS, the double that tests use             *)
(* (internal/adapter/filesystem).                                          *)
(*                                                                         *)
(* Builds with plans of the user's projects follow one another on one      *)
(* disk.  Any call may fail, and the process may be killed between two     *)
(* calls or while a file is written.  Of directories there is only their   *)
(* creation, which may fail.  Without the directory of a unit or a bundle  *)
(* what goes there is kept back; without a sub-directory of a unit it is   *)
(* not, as a write makes the directories that it needs.                    *)
(***************************************************************************)
EXTENDS Integers, Sequences, FiniteSets, SequencesExt

CONSTANTS
  Plans,      \* the emission plans builds may have
  Settings,   \* the options builds may have
  Sources,    \* the user's files that plans have assets of
  Adopted,    \* the paths that the patterns of adopt-selected match
  MaxBuilds,  \* bound: builds
  MaxFaults   \* bound: calls that fail and crashes, over all builds

\* A location is a directory and a path under it.  Src and Root stand for where
\* the user's files are, and for the root of the repository.
Src     == "src"
Root    == "root"
Nowhere == <<"nowhere", "">>
At(dir, path) == <<dir, path>>

\* What a file that is being written has, and what there is to read where
\* there is no file.
Torn    == "torn"
Missing == "missing"
Content == STRING \ {Torn, Missing}

\* Where units, their sub-directories and their bundles go.
Dirs == STRING \ {Src, Root, Nowhere[1]}

\* What a plan has for a directory.  An asset is linked to "to" and copied, if
\* that fails, from "source": a SourcePath that is relative leads from the link's
\* directory as a link, but from the working directory as a file to read.
EmittedFile  == [path : STRING \ {""}, content : Content]
EmittedAsset == {a \in [path : STRING \ {""}, source : Sources \cup {Nowhere}, to : Sources \cup {Nowhere}] :
                   a.to \in {a.source, Nowhere}}
EmittedPlugin == [dir : Dirs, files : Seq(EmittedFile)]
UnitEmission  == [dir : Dirs, dirs : Seq(Dirs), files : Seq(EmittedFile), assets : Seq(EmittedAsset),
                  bundles : Seq(EmittedPlugin)]

\* A plan has its units in the order of their directories.
ASSUME MaterializerAssumption ==
  /\ Plans \subseteq Seq(UnitEmission)
  /\ Settings \subseteq [mode     : {"build-only", "copy", "symlink", "adopt-selected"},
                         dryRun   : BOOLEAN,
                         failFast : BOOLEAN]
  /\ Sources \subseteq {Src} \X Content
  /\ MaxBuilds \in Nat /\ MaxFaults \in Nat

VARIABLES
  disk,     \* what there is at each location where there is something
  mem,      \* a MemFS that has had the same plans
  plan,     \* the plan of the build under way, or of the last one
  setting,  \* its options
  tasks,    \* its tasks
  at,       \* the one it is at
  doing,    \* how far it is with the task, or "idle"
  content,  \* what it is writing
  result,   \* its MaterializationResult
  outcome,  \* what the last build came to
  clean,    \* nothing has failed since the disk was fresh
  stuck,    \* the places where what was to give way to a link could not be removed
  done,     \* the plan of the last build that ended without an error, if none began since
  builds, faults

vars == <<disk, mem, plan, setting, tasks, at, doing, content, result, outcome, clean, stuck, done,
          builds, faults>>

-----------------------------------------------------------------------------
(* The plan as the tasks that Materialize goes through.                    *)

Writes(dir, files, bundled) ==
  [k \in DOMAIN files |-> [do |-> "write", at |-> At(dir, files[k].path), content |-> files[k].content,
                           bundled |-> bundled]]

Links(dir, assets) ==
  [k \in DOMAIN assets |-> [do |-> "link", at |-> At(dir, assets[k].path),
                            source |-> assets[k].source, to |-> assets[k].to]]

\* A directory, and how many tasks are passed over when it cannot be made.
MkdirAll(dir, holds) == [do |-> "mkdir", at |-> At(dir, ""), holds |-> holds]

Under(dir, inside) == <<MkdirAll(dir, Len(inside))>> \o inside

SubDirs(dirs) == [k \in DOMAIN dirs |-> MkdirAll(dirs[k], 0)]

Bundles(bundles) ==
  FlattenSeq([k \in DOMAIN bundles |->
                Under(bundles[k].dir, Writes(bundles[k].dir, bundles[k].files, TRUE))])

\* Sub-directories, files, assets, scripts and bundles, unit by unit.
UnitTasks(u) ==
  Under(u.dir, SubDirs(u.dirs) \o Writes(u.dir, u.files, FALSE) \o Links(u.dir, u.assets)
                 \o Bundles(u.bundles))

Tasks(p) == FlattenSeq([k \in DOMAIN p |-> UnitTasks(p[k])])

Task == tasks[at]

-----------------------------------------------------------------------------
(* The disk.                                                               *)

File(c) == [is |-> "file", content |-> c]
Link(l) == [is |-> "link", to |-> l]

Has(l) == l \in DOMAIN disk

\* Reading and writing follow a link.
Follow(l) == IF Has(l) /\ disk[l].is = "link" THEN disk[l].to ELSE l

ReadFile(l) == IF Has(Follow(l)) THEN disk[Follow(l)].content ELSE Missing

\* A link that leads nowhere has no directory to create the file in.
CanWrite(l) == Follow(l) # Nowhere

\* f, and v at l.
With(f, l, v) == [m \in DOMAIN f \cup {l} |-> IF m = l THEN v ELSE f[m]]

Put(l, node) == disk' = With(disk, l, node)

-----------------------------------------------------------------------------
NoResult == [written |-> {}, linked |-> {}, dirs |-> {}, errors |-> {}]

Simulated(t) ==
  LET of(what) == {t[k].at : k \in {k \in DOMAIN t : t[k].do = what}}
  IN [written |-> of("write"), linked |-> of("link"), dirs |-> of("mkdir"), errors |-> {}]

Init ==
  /\ disk = [s \in Sources |-> File(s[2])]
  /\ mem = [files |-> <<>>, links |-> <<>>]
  /\ plan = <<>> /\ tasks = <<>> /\ setting \in Settings
  /\ at = 1 /\ doing = "idle" /\ content = Missing
  /\ result = NoResult /\ outcome = "none"
  /\ clean = TRUE /\ stuck = {} /\ done = <<>>
  /\ builds = 0 /\ faults = 0

\* A dry run lists what there is to do and does none of it.
Begin ==
  /\ doing = "idle"
  /\ builds < MaxBuilds
  /\ \E p \in Plans, s \in Settings :
       /\ plan' = p /\ setting' = s /\ tasks' = Tasks(p)
       /\ IF s.dryRun
            THEN doing' = "idle" /\ result' = Simulated(Tasks(p)) /\ outcome' = "simulated"
            ELSE doing' = "task" /\ result' = NoResult /\ outcome' = "running"
       /\ done' = IF s.dryRun \/ done = p THEN done ELSE <<>>
  /\ at' = 1
  /\ builds' = builds + 1
  /\ UNCHANGED <<disk, mem, content, clean, stuck, faults>>

FaultAt(places) ==
  /\ faults < MaxFaults
  /\ faults' = faults + 1
  /\ clean' = FALSE
  /\ stuck' = stuck \cup places
  /\ done' = <<>>

Fault == FaultAt({})

NoFault == UNCHANGED <<faults, clean, stuck, done>>

Turn(what) == doing = what /\ at <= Len(tasks)

\* Every error is recorded, and the loop goes on.
Record(list, to) ==
  /\ result' = [result EXCEPT ![list] = @ \cup {Task.at}]
  /\ at' = to
  /\ doing' = "task"

\* Without the directory of a unit or a bundle, what goes there is passed over.
Mkdir ==
  /\ Turn("task") /\ Task.do = "mkdir"
  /\ \/ Record("dirs", at + 1) /\ NoFault
     \/ Record("errors", at + 1 + Task.holds) /\ Fault
  /\ UNCHANGED <<disk, mem, plan, setting, tasks, content, outcome, builds>>

\* Mutant: what exists is left alone, whatever it holds.
Changed_Absent(l, c) == ReadFile(l) = Missing

\* Mutant: every file is written.
Changed_Always(l, c) == TRUE

\* ~ contentUnchanged
Changed(l, c) == ReadFile(l) # c

Skip ==
  /\ Turn("task") /\ Task.do = "write"
  /\ ~ Changed(Task.at, Task.content)
  /\ at' = at + 1
  /\ UNCHANGED <<disk, mem, plan, setting, tasks, doing, content, result, outcome, clean, stuck, done,
                 builds, faults>>

\* os.WriteFile: it truncates what is there, and then writes.
Open(l, c) ==
  \/ CanWrite(l) /\ Put(Follow(l), File(Torn)) /\ content' = c /\ doing' = "opened"
     /\ NoFault /\ UNCHANGED <<at, result>>
  \/ ~ CanWrite(l) /\ Record("errors", at + 1) /\ NoFault /\ UNCHANGED <<disk, content>>
  \/ Record("errors", at + 1) /\ Fault /\ UNCHANGED <<disk, content>>

WriteFile ==
  /\ Turn("task") /\ Task.do = "write"
  /\ Changed(Task.at, Task.content)
  /\ Open(Task.at, Task.content)
  /\ UNCHANGED <<mem, plan, setting, tasks, outcome, builds>>

\* Mutant: a write that fails is not recorded.
Finished_Silent(list) ==
  \/ Put(Follow(Task.at), File(content)) /\ Record(list, at + 1) /\ NoFault
  \/ at' = at + 1 /\ doing' = "task" /\ Fault /\ UNCHANGED <<disk, result>>

Finished(list) ==
  \/ Put(Follow(Task.at), File(content)) /\ Record(list, at + 1) /\ NoFault
  \/ Record("errors", at + 1) /\ Fault /\ UNCHANGED disk

FinishWrite ==
  /\ Turn("opened")
  /\ Finished(IF Task.do = "link" THEN "linked" ELSE "written")
  /\ content' = Missing
  /\ UNCHANGED <<mem, plan, setting, tasks, outcome, builds>>

\* Mutant: the destination is not removed first.
RemoveDest_Not ==
  /\ Turn("task") /\ Task.do = "link"
  /\ UNCHANGED disk /\ doing' = "removed" /\ NoFault /\ UNCHANGED <<at, result>>
  /\ UNCHANGED <<mem, plan, setting, tasks, content, outcome, builds>>

\* copyOrSymlink: the directory is made and what is there is removed; that it
\* cannot be removed is not an error.
RemoveDest ==
  /\ Turn("task") /\ Task.do = "link"
  /\ \/ disk' = [l \in DOMAIN disk \ {Task.at} |-> disk[l]] /\ doing' = "removed"
        /\ NoFault /\ UNCHANGED <<at, result>>
     \/ UNCHANGED disk /\ doing' = "removed" /\ FaultAt({Task.at}) /\ UNCHANGED <<at, result>>
     \/ Record("errors", at + 1) /\ Fault /\ UNCHANGED disk
  /\ UNCHANGED <<mem, plan, setting, tasks, content, outcome, builds>>

\* There may be no links, or something in the way.
Symlink ==
  /\ Turn("removed")
  /\ \/ ~ Has(Task.at) /\ Put(Task.at, Link(Task.to)) /\ Record("linked", at + 1) /\ NoFault
     \/ Has(Task.at) /\ doing' = "copy" /\ NoFault /\ UNCHANGED <<disk, at, result>>
     \/ doing' = "copy" /\ Fault /\ UNCHANGED <<disk, at, result>>
  /\ UNCHANGED <<mem, plan, setting, tasks, content, outcome, builds>>

\* The fallback writes what it reads from the source.
CopyFallback ==
  /\ Turn("copy")
  /\ IF Has(Task.source)
       THEN Open(Task.at, ReadFile(Task.source))
       ELSE Record("errors", at + 1) /\ NoFault /\ UNCHANGED <<disk, content>>
  /\ UNCHANGED <<mem, plan, setting, tasks, outcome, builds>>

Crash ==
  /\ doing # "idle"
  /\ Fault
  /\ doing' = "idle" /\ outcome' = "crashed"
  /\ UNCHANGED <<disk, mem, plan, setting, tasks, at, content, result, builds>>

-----------------------------------------------------------------------------
(* MemFS: files and links are apart, and nothing follows a link.           *)

\* The value of the last task of a kind at a location: each one overwrites.
LastOf(what, l) == tasks[CHOOSE k \in DOMAIN tasks :
                           /\ tasks[k].do = what /\ tasks[k].at = l
                           /\ \A j \in k + 1 .. Len(tasks) : tasks[j].do # what \/ tasks[j].at # l]

MemMaterialize(m) ==
  LET s == Simulated(tasks)
  IN [files |-> [l \in DOMAIN m.files \cup s.written |->
                   IF l \in s.written THEN LastOf("write", l).content ELSE m.files[l]],
      links |-> [l \in DOMAIN m.links \cup s.linked |->
                   IF l \in s.linked THEN LastOf("link", l).source ELSE m.links[l]]]

\* What syncCopy, syncSymlink and syncAdoptSelected do with a file of a unit.
SyncCopy(m, src, dest) == [files |-> With(m.files, dest, m.files[src]), links |-> m.links]

\* Mutant: the destination is not removed first.
SyncSymlink_Over(m, src, dest) == [files |-> m.files, links |-> With(m.links, dest, src)]

\* Remove takes the file, or else the link, away.
SyncSymlink(m, src, dest) ==
  [files |-> [l \in DOMAIN m.files \ {dest} |-> m.files[l]], links |-> With(m.links, dest, src)]

SyncFile(m, src, dest) ==
  CASE setting.mode = "copy"           -> SyncCopy(m, src, dest)
    [] setting.mode = "symlink"        -> SyncSymlink(m, src, dest)
    [] setting.mode = "adopt-selected" -> IF dest[2] \in Adopted THEN SyncCopy(m, src, dest) ELSE m

\* A file of a unit; assets and bundles are not synchronized.
UnitFile(t) == t.do = "write" /\ ~ t.bundled

\* Where the root has it.
Dest(t) == At(Root, t.at[2])

\* Unit by unit, file by file.
Synced(m) ==
  LET synced[n \in 0 .. Len(tasks)] ==
        IF n = 0 THEN m
        ELSE IF UnitFile(tasks[n]) THEN SyncFile(synced[n - 1], tasks[n].at, Dest(tasks[n]))
        ELSE synced[n - 1]
  IN synced

ApplySyncMode(m) == IF setting.mode = "build-only" THEN m ELSE Synced(m)[Len(tasks)]

\* The end of the stage.  OSMaterializer is neither Reader nor Writer, so that
\* synchronizing is an error there.
Execute ==
  /\ doing = "task" /\ at > Len(tasks)
  /\ LET errors == result.errors
                     \cup (IF result.errors = {} /\ setting.mode # "build-only" THEN {At(Root, "")} ELSE {})
     IN /\ result' = [result EXCEPT !.errors = errors]
        /\ outcome' = IF errors # {} /\ setting.failFast THEN "refused" ELSE "done"
        /\ done' = IF result.errors = {} THEN plan ELSE <<>>
  /\ mem' = ApplySyncMode(MemMaterialize(mem))
  /\ doing' = "idle"
  /\ UNCHANGED <<disk, plan, setting, tasks, at, content, clean, stuck, builds, faults>>

Work == Mkdir \/ Skip \/ WriteFile \/ FinishWrite \/ RemoveDest \/ Symlink \/ CopyFallback \/ Execute

Next == Begin \/ Work \/ Crash

Spec == Init /\ [][Next]_vars

-----------------------------------------------------------------------------
Planned == UNION {{Tasks(p)[k].at : k \in DOMAIN Tasks(p)} : p \in Plans}

TypeOK ==
  /\ Sources \subseteq DOMAIN disk /\ DOMAIN disk \subseteq Sources \cup Planned
  /\ \A l \in DOMAIN disk : disk[l].is = "link" => disk[l].to \in Sources \cup {Nowhere}
  /\ plan \in Plans \cup {<<>>} /\ setting \in Settings
  /\ at \in 1 .. Len(tasks) + 1
  /\ doing \in {"idle", "task", "opened", "removed", "copy"}
  /\ \A list \in DOMAIN result : result[list] \subseteq Planned \cup {At(Root, "")}
  /\ outcome \in {"none", "running", "simulated", "crashed", "refused", "done"}
  /\ stuck \subseteq Planned
  /\ builds \in 0 .. MaxBuilds /\ faults \in 0 .. MaxFaults

\* The locations where some plan has a file, and where some plan has a link.
FilesOf == UNION {Simulated(Tasks(p)).written : p \in Plans}
LinksOf == UNION {Simulated(Tasks(p)).linked : p \in Plans}

LastTask(l) == tasks[CHOOSE k \in DOMAIN tasks : /\ tasks[k].at = l
                                                 /\ \A j \in k + 1 .. Len(tasks) : tasks[j].at # l]

\* A build that ends without an error, or that is let pass failing fast, has left
\* every file of its plan as the last unit to name it wants it, whatever earlier
\* builds, killed ones and ones that failed half-way, left there; torn files
\* included.  Not said of a place where some plan has a link.
Converges ==
  /\ TypeOK
  /\ outcome = "done" /\ (result.errors = {} \/ setting.failFast) =>
       \A l \in Simulated(tasks).written \ LinksOf : ReadFile(l) = LastTask(l).content

LinkedFrom(s) ==
  UNION {{Tasks(p)[k].at : k \in {k \in DOMAIN Tasks(p) : Tasks(p)[k].do = "link" /\ Tasks(p)[k].to = s}} :
           p \in Plans}

\* The user's files are what they were.  A write gets at one only through a link
\* to it: at a place where some plan has a file, or where an old link could not be
\* removed to make place for a new one, as the copy that is made instead goes
\* through it, and truncates a file that is its own source.
SourcesAreUntouched ==
  \A s \in Sources : disk[s] # File(s[2]) => LinkedFrom(s) \cap (FilesOf \cup stuck) # {}

\* There is an error for the directory of the task's unit or bundle.
HeldBack(k) ==
  \E j \in DOMAIN tasks : /\ tasks[j].do = "mkdir" /\ tasks[j].at \in result.errors
                          /\ k \in j + 1 .. j + tasks[j].holds

\* A file that is not in the result is as it should be, unless a later task or an
\* earlier plan's link has to do with its place.
NoNeed(k) ==
  /\ tasks[k].do = "write"
  /\ \/ tasks[k].at \in LinksOf
     \/ \E j \in k + 1 .. Len(tasks) : tasks[j].at = tasks[k].at
     \/ ReadFile(tasks[k].at) = tasks[k].content

\* Nothing gets lost between the plan and the result: what a dry run lists, the
\* sub-directories of units included, is written, linked or created, or is a file
\* that is as it should be, or there is an error for it or for the directory of its
\* unit or bundle.  That a sub-directory cannot be made is no excuse for what would
\* go there.  And nothing is in the result that the dry run does not list.
EveryTaskIsAccountedFor ==
  outcome \in {"done", "refused"} =>
    LET s == Simulated(tasks)
        listed == [mkdir |-> result.dirs, write |-> result.written, link |-> result.linked]
    IN /\ \A k \in DOMAIN tasks :
            \/ HeldBack(k)
            \/ tasks[k].at \in result.errors \cup listed[tasks[k].do]
            \/ NoNeed(k)
       /\ \A list \in {"written", "linked", "dirs"} : result[list] \subseteq s[list]
       /\ result.errors \subseteq s.written \cup s.linked \cup s.dirs \cup {At(Root, "")}

\* A build that follows one of the same plan, which ended without an error, writes
\* no file again, so that none looks newer than it is; but a file that two units
\* or a file and an asset have their own idea of.
SecondBuildWritesNothing ==
  done = plan /\ outcome = "running" =>
    \A l \in result.written :
      \/ l \in LinksOf
      \/ \E j, k \in DOMAIN tasks : j # k /\ tasks[j].at = l /\ tasks[k].at = l

\* As long as nothing fails, MemFS holds the files and the links that the disk
\* does, but where a plan has a file and another one, or the same, a link.
MemFSAgrees ==
  clean /\ doing = "idle" =>
    \A l \in Planned \ (FilesOf \cap LinksOf) :
      IF Has(l)
        THEN IF disk[l].is = "file" THEN l \in DOMAIN mem.files /\ mem.files[l] = disk[l].content
             ELSE l \in DOMAIN mem.links /\ disk[l].to \in {mem.links[l], Nowhere}
        ELSE l \notin DOMAIN mem.files \cup DOMAIN mem.links

\* Synchronized on MemFS, the root has each file as the last unit with a file of
\* that name has it, whatever modes the builds before had: as a link to that file,
\* and then as no file, or as a copy.  Beside a copy a link may remain that an
\* earlier build made; like every link in the root it leads to a unit's file of its
\* own name.
RootIsInSync ==
  outcome = "done" /\ doing = "idle" /\ setting.mode # "build-only" =>
    /\ \A j \in DOMAIN tasks :
         UnitFile(tasks[j]) =>
           LET src  == tasks[j].at
               dest == Dest(tasks[j])
           IN (\A k \in j + 1 .. Len(tasks) : UnitFile(tasks[k]) => Dest(tasks[k]) # dest) =>
                CASE setting.mode = "copy"    -> mem.files[dest] = mem.files[src]
                  [] setting.mode = "symlink" -> mem.links[dest] = src /\ dest \notin DOMAIN mem.files
                  [] OTHER -> src[2] \in Adopted => mem.files[dest] = mem.files[src]
    /\ \A l \in DOMAIN mem.links :
         l[1] = Root => mem.links[l][1] \in Dirs /\ mem.links[l][2] = l[2]

\* "EmittedAsset describes an asset file to copy or symlink into the output": after
\* a build without an error every asset can be read where the plan wants it.
AssetsAreReadable ==
  outcome = "done" /\ result.errors = {} /\ ~ setting.dryRun =>
    \A l \in Simulated(tasks).linked : LastTask(l).do = "link" => ReadFile(l) # Missing
=============================================================================
