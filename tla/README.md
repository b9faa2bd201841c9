# A TLA+ model of goagentmeta

goagentmeta compiles a vendor-neutral description of agents, skills, rules and
hooks (a `.ai/` directory) into the configuration files of Claude Code, Codex,
Copilot and Cursor.  It is a compiler pipeline of ten phases whose stages are
plugins, with a dependency resolver for external packages and a command line
on top.  This directory holds TLA+ specifications of it, the TLC
configurations that check them, and TLAPS proofs.  Paths below are relative to
the repository; every definition's source lines are in `PROJECT.json`, "map".

To check a run: `tlc -config Pipeline.cfg MCPipeline.tla`.  To check the
proofs: `tlapm PipelineProofs.tla`.

## The system

| component | where | state | operations | properties that make it right |
|---|---|---|---|---|
| stage registry | `internal/application/compiler/registry.go` | the registered stages and hooks | Register, StagesForPhase (Kahn's algorithm over Before/After), HooksForPhase | the order meets every constraint, lists each stage once, is independent of the order of registration, and an error means a cycle |
| pipeline | `internal/application/compiler/pipeline.go` | the IR passed on, the report | Execute, executePhase, runHooks | calls are made in order, each once; every failure is reported; the result says what happened; cancellation ends the run |
| command line | `internal/adapter/cli`, `cmd/goagentmeta` | flags, exit status, the objects map shared by stages | build, validate, init, package, targets, version | exit status and files agree with what happened in the pipeline |
| dependency resolver | `internal/application/dependency` | the lock file, in memory and on disk | Resolve, ReadLockFile, WriteLockFile | builds are reproducible: the lock file pins what was merged, stale pins are replaced, failed builds pin nothing |
| cache, integrity | `internal/adapter/registry/cache.go`, `integrity.go` | package directories | Get, Put, Invalidate, Verify | a torn or foreign directory is never used for a pinned package |
| registries | `internal/adapter/registry/{local,http,git}_registry.go` | extracted packages and clones | Resolve, Search, Fetch | the best admitted version; what is resolved can be fetched; retries end with the answer or the context; a partial download is not taken for a package |
| version constraints | `internal/adapter/registry/version.go` | none | MatchConstraint, BestMatch | the ranges of exact, comparison, caret and tilde constraints |
| parser, validator | `internal/adapter/stage/{parser,validator}` | none | Execute | every object is found once; the verdict on a tree is right, cycles and diamonds included |
| normalizer | `internal/adapter/stage/normalizer` | a working set of objects | Execute: defaults, inheritance, paths, scope index | parents are complete before children inherit; cycles are errors |
| planner, capability resolver, lowering | `internal/adapter/stage/{planner,capability,lowering}` | a cache of target registries | Execute | units cover the targets; an unmet required capability is an error; unsupported objects are lowered or recorded as skipped |
| renderers | `internal/adapter/renderer` | none | Execute, a layer for each kind of object | every object that was lowered is emitted or reported; no layer writes over another's file; provenance is right |
| materializer | `internal/adapter/stage/materializer`, `internal/adapter/filesystem` | the output directory | Execute, Materialize, dry run, sync modes | the disk converges to the plan whatever was there; unchanged files and the user's own are left alone; the result tells what happened |
| reporter | `internal/adapter/stage/reporter`, `internal/adapter/reporter` | diagnostics, the report | Execute, the writers | the report agrees with the build |
| external plugins | `internal/adapter/plugin` | a child process and its pipes | Describe, Execute | parent and child never wait for each other; a round trip ends by the timeout and leaves no child; an answer is not lost |
| language server | `internal/lsp` | open documents, life cycle | initialize, didOpen, didChange, didClose, shutdown, exit | diagnostics are of the last text of an open document |
| packaging, marketplace | `internal/application/packaging`, `internal/adapter/{packager,marketplace}` | archives | Package, Generate | each requested format is produced or reported |
| plugin registry, tool registry, domain types | `pkg`, `internal/domain`, `internal/adapter/tool` | tables | lookups | - |

How they interact: the command line wires stages and one hook into a stage
registry and calls `Pipeline.Execute`, which runs in one goroutine.  The
pipeline asks the registry for the stages and hooks of a phase and hands each
call the value the last one returned; stages talk to each other through that
value only, with one exception, a map of normalized objects that a hook fills
after the normalize phase and that later stages hold from the start.  The
resolver stage calls the dependency resolver, which talks to a registry, to a
cache and to the lock file, all of which outlive the process.  Signals end the
context at any time.

What is hard here is therefore not parallelism.  It is *order* (constraints,
phases, the late-bound map), *failure in the middle* (a stage, a hook, a write
or a download fails and something carries on), *state that outlives a build*
(lock file, cache, clones, with crashes in between), *staleness* (a pin, a
cached directory), and *cancellation at any time*.  `PROJECT.json`, "hazards",
lists the places.

The HTTP and git registries, the cache, the version satisfier and the external
plugins are complete and tested in the repository, but `wire.go` wires only
the local registry, without cache and satisfier, and no plugins.  The models
treat both set-ups and say which is which.

## The modules

    StageRegistry            <- StageRegistryProofs, MCStageRegistry
    Schedule (abstract)      <- Pipeline <- PipelineProofs, MCPipeline
                                Pipeline <- Build <- BuildProofs, MCBuild
                                PipelineProofs <- BuildProofs
    ReproducibleBuild (abstract) <- DependencyResolver
                                DependencyResolver <- DependencyResolverProofs,
                                                      MCDependencyResolver
    Versions                 <- Registries <- RegistriesProofs, MCRegistries
    Normalizer               <- FrontEnd <- FrontEndProofs, MCFrontEnd
    PlanAndLower             <- Renderers; both, and MCPlanAndLower <- MCRenderers
                                Renderers <- PlanAndLowerProofs
    Materializer             <- MCMaterializer
    ExternalProcess          <- MCExternalProcess
    ExternalProcess, Materializer <- SystemProofs

`Build` has the whole program with stages as black boxes; the modules below it
open them: FrontEnd the first four phases, Renderers the next ones (from planner
to render), Materializer the last but one.  DependencyResolver takes Resolve
and Fetch of a registry as steps, which Registries looks into.

### StageRegistry

A stage is its descriptor.  `Register` is one call of `WithStage`; calls come
in any order and may be repeated, invalid or duplicate.  `StagesForPhase`
counts the constraint edges and fills the queue, `Place` is one iteration of
Kahn's loop, `Return` its end.  The counters `inDegree` are modelled by the
sets of edges they count, `waiting`, with an edge tagged by the list it comes
from, so that a pair constrained on both sides counts twice as in the code;
`sort.Slice` and `sort.Ints` are `SortedSeqs`, the sequences sorted by
`Precedes`.  Indices are left out: the code's index of a stage is its rank in
that total order.  The mutex is left out as well, since one goroutine uses a
registry.

### Schedule and Pipeline

`Schedule` says what a pipeline promises: a list of calls is made in order,
each at most once; one value is passed on; a run that succeeds has made all of
them, and a call whose failure is fatal ends it.  `Pipeline` is
`executePhase`: `pc` says in which of its loops it stands and `pos` is the
index of that loop.  A stage is two steps, `StartStage` (the look at the
context) and `FinishStage` (its result), so that cancellation can come while
it runs.  A call returns a value, nil or an error.  The IR is represented by
the call it came from, which is all that `LatestValueThreaded` needs.  The
registry is the constant `Plans`: what StagesForPhase and HooksForPhase will
answer, an error included.

### Build

The `build` and `validate` commands as runs of `Pipeline` (`INSTANCE`), with
the ten phases and the stages `wire.go` registers.  Here the IR is its Go type
and the targets it has units for: enough for what each stage accepts
(`RejectInput`, the type assertion every `Execute` begins with; `Accepts` and
`Yields` collect the types of all stages, though "map" can name one stage's
lines only), which files are written, and which targets they are of.  Why a
stage fails on good input is left open.  `BridgeObjects` is the hook of the
late-bound map, `WriteFiles` the materializer with its failure modes, dry run
and sync check, `WriteReports` the reporter's writers, `ReturnToMain` the rest
of runBuild or runValidate and of main.

### ReproducibleBuild and DependencyResolver

`ReproducibleBuild` is dependency resolution as a user sees it: a build is one
step that keeps the valid pins, replaces the others, and pins what it uses; or
it fails and pins nothing, or loses all pins if it fails in the moment of
saving them.  Two of its variables say what a set-up does not promise: that a
new pin is one the manifest admits (`admitting`, not of an HTTP registry), and
that no package is lost after it was compared with its pin (`intact`, not with
a shared directory).  `DependencyResolver` is `Resolve` as it runs: read the lock
file, take the dependencies in the order of a Go map, from the lock file
(`TakeLocked`, with the cache) or from the registry (`ResolveFresh`), `Fetch`,
`Verify`, `Put`, parse, write the lock file.  `config` chooses the registry
whether there is a cache and a satisfier, and whether an HTTP registry extracts
into the directory of the cache (`shared`; both have the same default).  What a
local or a git registry resolves is published and admitted; an HTTP registry
answers with anything in `Answers`, a package of another name, a version that
is not admitted or no hash among it, since nothing compares the answer with the
question (`http_registry.go:108`, `resolver.go:292`).  A package's content is a number
that stands for its files and for their hash; a directory holds a content, a
part of one (`Torn`) or nothing.  Crashes come at every step and leave what
that step leaves half done; the lock file can be truncated
(`WriteLockFails`), which fails every build until somebody removes it.
Publications, withdrawals and replacements happen at any time; the manifest is
edited between builds.

The directory of a *local* registry is taken to be stable from `Verify` to the
parsing of its objects, the two reads of `resolver.go:322` and `:363`.

### Normalizer and FrontEnd

`Normalizer` is `Stage.Execute` of the normalizer, one iteration of its loops a
step: `Copy` puts a raw object in the place of an earlier one with its ID,
`Link` counts the edges to parents (again as sets, one element for each mention
of a parent), `Place` is an iteration of Kahn's loop, `Merge` one call of
`mergeParentIntoChild`.  What an object has is of two kinds: values that it
takes from the first parent that has one, named by the raw object they were
written in, and sets that are joined.  Scope paths stand for file types and
labels too.  IDs are numbers, since `sort.Strings` only compares them.

`FrontEnd` puts what comes before it in front: `ParseFile` takes one entry of
a source directory, `SortObjects` is the unstable sort by ID (any of the orders
it may come to), `ValidateObject` one round of the structural checks,
`ValidateTree` the semantic checks and the verdict, `ResolveDependencies` the
objects of packages, which nothing validates.  `DetectCycle` is the depth-first
walk with its marks, for both kinds of edges; what it is compared with, `Leads`,
does not walk: an object leads into a cycle if it is in a set of objects each of
which has a way to another one of the set.  Of the schemas an object has
only whether it meets them.

### PlanAndLower

Planner, capability resolver and lowering engine are one module, since what
they promise (preservation levels, blocking hooks, locked profiles) no single
one of them keeps: the resolver fails the build for required surfaces that are
missing, the engine decides object by object and assumes that the resolver did
so.  Each stage is one step: `Plan`, `ResolveCapabilities`, `Lower`; their
loops over units, surfaces and objects carry nothing from one round to the
next and are functions here.  An object has its kind, its filters, its
preservation and what the lowerings look at; of its text only where it is, in
a field or in the body of a Markdown file.  `ObjectIDsForUnit` is how the
engine finds the objects of a unit: by surface, not by the plan.  A unit is
named by its target.  The registries are a constant.  Warnings and lowering
records are left out: both repeat the decision.

### Renderers

One more step after `Lower`: each of the four renderers makes an emission of
each unit of its target.  A layer is a definition (`ClaudeSettings`,
`CursorAgents` ...) that picks the objects of its kind and says which files it
makes of them.  A file is its path, the objects it is attributed to (`sources`)
and those whose data are in it (`holds`), which are not the same everywhere in
the code; assets, bundles, install entries and MCP servers are kept apart.  A
resource of a skill or an artifact of a plugin is the path it is referred to by,
a directory and a last segment, of which its destination has the segment only:
two of one name are two entries with one path.
`Dropped` are the objects a renderer reports with a diagnostic.  All renderers
are given the lowered graph; that the pipeline does not do so is the finding of
`build_all_targets`.  A path is its directory and the name in it, and a name
below a skill or a plugin is of one part: an instruction that is scoped to the
directory of one single skill is not compared with the skill's own files.

### Versions and Registries

`Versions` has `ParseVersion`, `Compare`, `MatchConstraint` and `BestMatch` as
operators; the text of a version is a record of how it is spelled, because
directories are named by texts and looked up by `String`.  What a constraint
means, `Admits`, is stated apart from `Compare`, by half-open ranges.
`Registries` is a client of one registry.  For the local and the git registry
a call of Resolve is one step; for HTTP, `Begin` starts Resolve, Search or
Fetch, and `Try`, `Answered` and `Backoff` are the parts of `doGet`'s loop;
`Clear` is the removal of the directory and `Extract` one entry of the archive.
The server answers as it likes, the context ends at any time, and an archive
may break off in every entry (`ExtractFails`).

### Materializer

A plan becomes a list of tasks in the order of `Materialize`: make a directory,
write a file, link an asset.  A unit has sub-directories and any number of
bundles.  Without the directory of the unit or of a bundle what goes there is
passed over (`holds`); without a sub-directory nothing is, since a write makes the
directories it needs.  Each call of the operating system is a step that
may fail, up to a bound: a write opens (and thereby truncates) the file, then
fills it; linking removes the destination, links, and copies if that fails.  A
kill (`Crash`) may come between any two steps.  Reads and writes follow links.
Builds follow one another on one disk, each with a plan and options of its own.
`mem` is a `MemFS` that has had the same plans; `ApplySyncMode` works on it,
since the disk's materializer cannot synchronize.  Of the directories only
their creation is there.  `stuck` remembers where something could not be removed to
make place for a link, for the one exception of `SourcesAreUntouched`.

### ExternalProcess

`roundTrip`: write the request into a bounded pipe, close it, read one JSON
object from another, wait for the child.  The child is any program: its steps
have no order but what the pipes impose, and it may leave a process behind that
holds them.  A "polite" child reads all, answers once and exits.  `Expire` is
the context, `Kill` the goroutine of `exec.CommandContext`.  Data are counted
in chunks.

## What the runs check

| run | module | shows |
|---|---|---|
| `stage_order` | MCStageRegistry | constraints met (`RespectsConstraints`), each stage once (`ListsEveryStageOnce`), errors and cycles agree (`CycleIsReal`, `CycleIsReported`), priority order without constraints (`UnconstrainedIsPriorityOrder`) |
| `pipeline` | MCPipeline | results have their causes (`ResultIsExplained`), every stage failure has one diagnostic (`EveryFailureReported`), the IR is the latest value (`LatestValueThreaded`), refinement of Schedule (`ImplementsSchedule`), a run that is cancelled with stages left ends without success (`CancellationIsSeen`) |
| `build` | MCBuild | files of a target only if every stage behind them succeeded, without fail-fast too (`FilesAreJustified`); exit 0 when failing fast means everything was written (`FailFastSuccessIsComplete`); the shared map is filled before it is used (`LateBinding`); the commands exit (`CommandExits`) |
| `dependency_resolver` | MCDependencyResolver | the lock file pins what a successful build merged, and all of it was there unless the cache shares the registry's directory (`LockPinsTheBuild`), refinement of ReproducibleBuild, builds end (`EveryBuildEnds`) |
| `front_end` | MCFrontEnd | what the front end says of a tree (`VerdictIsRight`): no file is lost on the way to it, the validator finds fault with exactly the objects at fault, and what it let pass is never cyclic in the normalizer, external objects included; values come from the leftmost parent that has them, over any number of generations and duplicate IDs (`InheritsFromTheFirst`); an object is indexed where it or an ancestor is in scope (`IndexedWhereInScope`); exactly cycles and missing parents are refused (`RefusedForCause`) |
| `renderers` | MCRenderers | of a build that passes planner, resolver and lowering: required objects are in it safely and unsafe lowerings are of optional objects (`PreservationIsKept`), no blocking hook became advisory (`BlockingIsNotAdvisory`), a locked profile has no MCP provider and gives up nothing else (`LockedProfileHasNoMCP`); from the planner to the emissions no active object is lost without a word, and one that is not active gets into a unit by a shared surface only (`NothingIsLostUnseen`); no layer writes over another's file, two resources of one object with the same last part of their path excepted, and later plugins take no server away (`NoLayerOverwritesAnother`); provenance lists what is written for the objects whose data are in it, but for assets, bundles and permissions, and nothing else, but for Copilot's event files (`ProvenanceIsTruthful`) |
| `registries` | MCRegistries | the local and the git registry choose the highest version in the constraint's range and the local one can fetch what it chose (`BestIsHighestInRange`); an HTTP call's result follows from its requests, of which at most one more goes out after the context ended (`AnswerIsExplained`); a fetch that succeeds leaves exactly the archive, one that got no answer leaves the old package, and none exceeds the limits (`FetchedIsTheArchive`) |
| `materializer` | MCMaterializer | after a build without errors the disk is what the plan says, torn and foreign files notwithstanding (`Converges`); the user's files are changed in two named cases only (`SourcesAreUntouched`); every task of the plan is accounted for in the result (`EveryTaskIsAccountedFor`); a repeated build writes nothing (`SecondBuildWritesNothing`); the test double agrees with the disk (`MemFSAgrees`) and synchronizes as the modes say (`RootIsInSync`) |
| `external_plugin` | MCExternalProcess | on every way out the child is reaped (`NoChildIsLeft`), parent and polite child wait for each other in one case only (`NoStandstill`), a polite child's answer is not lost, and a failed handshake leaves the stage as it was (`CallIsReported`), the timeout ends every call but for a grandchild that holds the pipes (`CallEnds`) |

Type invariants, and small facts that belong to a larger one, are named conjuncts
of the properties above (`TypeOK` of `LockPinsTheBuild`, `ServersAreStable` of
`NoLayerOverwritesAnother`, and so on); those of StageRegistry and Pipeline are
parts of the inductive invariants that are proved.

Where the properties of StageRegistry speak of constraints they hold of phases
with two stages or more: `sortStages` returns before it looks at constraints
otherwise.

Runs that are expected to be violated; each checks a sentence of the
documentation, a comment or a help text against the code ("findings" quotes
them):

| run | the sentence | what the code does |
|---|---|---|
| `build_all_targets` | each unit goes to its target's renderer | the second renderer gets the first one's output, so building two or more targets, the default, fails |
| `required_is_emitted` | unsupported lowering of a required object fails the build | a required hook whose event Cursor does not have is dropped by the renderer, with an info |
| `assets_are_readable` | an asset is copied or linked into the output | it is linked by a path relative to the source tree, which leads nowhere from where the link is |

Further divergences met while modelling, for which there is no run; the
modules do what the code does:

- `build.go:30` promises exit code 1 for a build error; without fail-fast Execute
  returns none, and a build whose stages failed exits with 0 (`build.go:171`,
  `ReturnToMain` in Build).
- `marketplace.md:193` says that a stale lock file is resolved again; without a
  satisfier, which `wire.go:70` does not set, every entry is taken for good
  (`TakeLocked` in DependencyResolver; ReproducibleBuild has it as `checked`).
- `filter.go:15` says that a disabled object is excluded; the engine finds the
  objects of a unit by their surfaces and lowers it all the same if it shares
  one with an active object (`lowering_engine.go:317`, `ObjectIDsForUnit`).
- `rule_lowering.go:12` calls the lowering of a rule always safe; it reads the
  field `content`, which a Markdown file does not have, and the rule becomes a
  heading without its text (`rule_lowering.go:24`).
- `build.go:31` promises exit code 2 for an interrupted build; `main` exits with
  1 and nothing reads the code of an exitError (`ReturnToMain` in Build).
- `build.go:45` says that a dry run writes no files; the reporter stage writes
  both reports in one, too (`WriteReports`).
- `sync_mode.go:22` says that SyncCopy copies to the root; with the materializer
  that `wire.go` uses, which can neither read nor write, the stage fails after
  it has written everything (`WriteFiles`).
- `registry.go:66` promises an error for a cycle of constraints; a stage alone
  in its phase that names itself is returned without one (`registry.go:109`).
- `descriptor.go:16` says "Lower values run first"; a stage that a constraint
  releases is queued behind all that were ready before, of higher Order too
  (`registry.go:181`).
- `hooks.go:13` promises a hook point between the stages of a phase,
  HookTransform; executePhase never asks the registry for its hooks.
- `options.go:64` says that a registration error "will surface during Execute";
  it is dropped.
- `validate.go:22` says that validate "runs the parse and validate phases
  only"; `validate.go:56` wires the normalizer.
- `resolver.go:127` says "Parse objects from the fetched package and merge into
  tree"; the HTTP registry and the cache have one default directory
  (`http_registry.go:71`, `cache.go:22`), so `Put` removes the package it is to copy
  (`cache.go:77`), its error is ignored (`resolver.go:340`), a missing directory has no
  objects, and the build succeeds without them (the exception `Spoils`; without it
  TLC finds `FetchedIsMerged` violated for that set-up).
- `marketplace.md:209` says "Cache invalidation is hash-based"; a cached package
  that does not match stays and fails every later build (`resolver.go:224`).
- `marketplace.md:69` says that the lock file pins integrity hashes; a git
  registry gives none (`git_registry.go:92`), and `Verify` accepts what has
  none, a clone that a crash cut short included.

- `path_resolver.go:14` speaks of "the object's SourcePath as the base
  directory"; paths are resolved after inheritance, so a path that is inherited
  is resolved from the directory of the heir, not of the file it is written in
  (`base` in Normalizer).
- `inheritance.go:91` calls `allIDs[0]` the "first cycle participant"; it is the
  first ID of all, and the list of participants has the descendants of a cycle
  in it.
- `normalizer.go:71` says that the input is not mutated; `normalizeScope` and
  the merge of target overrides write into slices and maps shared with it.
- `marketplace.md:196` promises namespacing of external objects by package; an
  external object takes the place of any other with its ID (`Copy`).
- An object that leaks into a unit it is not active in may also fail the build,
  if it is required and cannot be lowered there (`LoweringErrors`); lowering an
  advisory hook to a command works only where an unrelated command is active,
  since `commands.explicitEntryPoints` is resolved for commands alone.
- `plugin_lowering.go:12` lowers plugins to MCP references; no kind requires
  `mcp.serverBindings`, so it is never resolved and the branch never taken.  The
  branch also wants `provides` as `[]string`, and YAML gives `[]any`.
- `schemas.md` nests a hook's enforcement in `effect`; `extractEnforcement` reads a
  field of its own, so a hook written that way counts as advisory.
- `semantic.go:247` leaves missing parents to the "reference checks", which do not
  look at `extends`; the normalizer refuses them (`Link`).
- `parser.go:111` takes any error of listing a source directory for its absence
  ("directory doesn't exist — that's fine"): its objects leave the build.
- `mcp_layer.go:15` says that a "diagnostic warning is emitted" when two plugins
  define one server; the second is dropped silently (`Owner` in Renderers).
- `provenance.go:18` says that provenance.json lists "all source objects and output
  files for the build unit"; it lists the layers' files by their source objects
  (`renderer.go:191`).  Assets and bundle files are never among them, and a settings
  file that has permissions but no hooks is attributed to nobody (the exceptions in
  `ProvenanceIsTruthful`).
- Two resources of one skill, or artifacts of one plugin, whose paths end alike get
  one destination, without a word (`skills_layer.go:143`, `plugin_layer.go:61`; an
  exception in `NoLayerOverwritesAnother`).
- `plugin_layer.go:75` says of a bundle's files "Content will be materialized from
  source"; nothing does, and the files are written empty, at a path that has the
  bundle's directory twice, since it is in both `DestDir` and `Path`
  (`os_materializer.go:143`).
- A link that cannot be removed is written through by the fallback, and so is a
  file written at a path where an earlier plan had an asset: the user's source
  gets the content (`os_materializer.go:183`, `:94`; the exceptions in
  `SourcesAreUntouched`).  A skill with a resource named `SKILL.md` has both in
  one plan.
- A dry run lists files that are unchanged as files it would write.  Files that
  are no longer in the plan are never removed.
- `MemFS.Symlink` leaves a file of the same name in place, and `MemFS.WriteFile` a
  link, so that a path is both (`mem_filesystem.go:283`, `:262`; the exceptions in
  `MemFSAgrees`, and in `RootIsInSync` for a copy after a build that linked).
- A sub-directory that cannot be made is an error, but what goes there is written all
  the same (`os_materializer.go:78`; `EveryTaskIsAccountedFor` has it).
- The HTTP registry takes the name and the version a server answers with,
  whatever was asked for; the next build then finds the entry stale and asks again,
  or looks for the version under the name of the dependency (`ResolveFresh`,
  `admitting` in ReproducibleBuild).  With `maxRetries` 0 the error wraps nil; there is a pause
  after the last attempt, too (`http_registry.go:203`).
- A local package in a directory `v1.2.0` is a candidate and then looked for in
  `1.2.0` (`local_registry.go:81`); Resolve fails, even if another version would do.
- When an answer is not JSON and does not fit into the pipe, roundTrip calls
  `cmd.Wait` while the child still writes (`external.go:217`): both wait until the
  timer kills the child, and the error says nothing of the time (the exception in
  `NoStandstill`).
- `skill_lowering.go:97` reads the text as LowerRule does, with the same loss;
  `agent_lowering.go:96` reads only `rolePrompt`, and `buildCommandSkillContent` no
  text at all.

### Bounds

- `stage_order`: every sequence of registrations from a set of candidates with
  three names, two priorities and two phases, invalid ones and duplicates
  among them, each with at most one constraint but one that has two: on
  itself, on one another from both sides, on a stage that is absent or in the
  other phase, cycles of two and of three.  Three stages in a phase are the
  least at which a released stage and a queued one compete.
- `pipeline`: three phases, which make a first, an inner and a last one; up to
  two stages and two hooks at a point, with and without handlers; a phase that
  cannot be ordered, an empty phase.
- `build`: ten phases as in the code, and one command line of each kind: one
  target, one given twice, two, all; with and without fail-fast; a dry run; a
  sync mode; validate.
- `dependency_resolver`: two packages, two versions, two contents, three
  manifests, three registry states, and three answers of an HTTP registry, any
  of them to any question, so that there are answers of another name, of a version
  that is not admitted, with the hash of content that was replaced, and without a
  hash.  Two contents are enough to tell the
  pinned one from another; two packages are enough for a build that fails
  after a first success.  There is no bound on the number of builds, edits or
  crashes: the state space is finite without one.  The set-up of an HTTP
  registry with a cache in another directory is left out of this run for its
  size; each of the two parts is in one of the others.

- `front_end`: every way in which three objects can extend one another with up to
  two mentions each, which has chains, diamonds with a missing side, cycles of
  one to three and repeated parents; every way in which three agents can call
  one another or a missing one; an agent's reference of each sort to an object
  of each kind; duplicate IDs, a missing ID, invalid scopes, schemas and tools
  in trees of their own; packages that replace, complete or repeat objects.
  About 3,200 projects, those that matter for it in both modes.

- `renderers`: ordered pairs of objects, since two are the least at which
  objects share a surface, a name or a file, or find one another's; the
  registries of the four targets and the limited target of
  `lowering_engine_test.go:1193`, without which no hook, skill or agent is ever
  unsupported, with one surface emulated; a target without a registry; three
  profiles; no providers, as `wire.go` has it, and three that share surfaces; a skill
  with two resources and a plugin with two artifacts of one name.

- `registries`: eleven versions on both sides of the bounds of every range of
  five targets (0.0.0, 0.0.1, 0.1.0, 1.0.0, 1.1.0) with each operator, in pairs;
  names with a prefix, with leading zeros and no versions; no retry and three,
  as is the default; archives that repeat a file, have another type of entry,
  exceed either limit or lead out of the directory, with limits of two and four.
  Calls follow one another without a bound.

- `materializer`: two builds and two faults, each of them any; four plans with
  two units that share a path, a sub-directory, two bundles, an asset that changes
  its source or becomes a file, a relative one; every sync mode and a dry run.  What one
  build leaves is all that the next one knows, so two are enough; a kill after
  a failed call needs two faults.

- `external_plugin`: pipes of one chunk, an answer of three, a request of one
  (describe) or three (execute), and two chunks more than the answer: both
  directions can fill the pipe.  With an answer of two the exception in
  `NoStandstill` does not occur, since one chunk is read before Decode gives up
  and the other fits into the pipe.  Calls follow one another without a bound.

`CHECK_DEADLOCK FALSE` is given where the modelled process ends (Pipeline,
Build, FrontEnd, Renderers, and Materializer, where the last build ends).

### Fairness

Liveness is checked of `Pipeline` and `Build` (weak fairness of `Advance`), of
`DependencyResolver` (of the build's own steps) and of `ExternalProcess`; none of
the environment's steps is fair (cancellation, signals, crashes, edits,
publications, faults).  One goroutine runs the code, and the Go scheduler does
not starve it; it is assumed that each stage, hook, read, write and registry
call returns, with an error if need be.  In ExternalProcess the parent's steps,
the timer and the goroutine that kills the child are fair; the child is not,
since it may be any program, and neither is what it leaves behind, which is why
`CallEnds` makes an exception for it.  The other modules have no liveness
property: their loops are over lists that are fixed when they begin, and that
they end is proved instead (see "That everything comes to an end" below).

## What is proved

`StageRegistryProofs`, for every set of candidate stages and phases (from
`CandidatesAssumption`: candidates are descriptors):

- The inductive invariant `IInv` is `KahnInvariant` together with the types,
  the finiteness of `nodes` (without which its cardinality says nothing), and
  what is known of the answer.  `KahnInvariant` alone is about the loop: a stage waits for
  exactly the edges from stages that were not placed; it is queued from the
  moment none is left; placed stages had their predecessors placed before.
  Preserving it at `Place` is the heart of the proof, since an edge set may
  hold both edges of a pair.
- From it: the order meets every constraint, lists every stage once, and a
  cycle is reported exactly when there is one.  That a cycle error is real
  follows from the stages left over: each waits for an edge from another one
  of them.  That a cycle is never ordered follows by taking, in a set of
  stages each of which has a predecessor in the set, the one placed first;
  that there is a first one is the lemma `LeastElement`.
- Without constraints no stage is ever released, so that the queue stays the rest
  of the sorted list (`PriorityInv`), and the order is that of priority and name.
- With constraints the order is determined, too (`OrderIsDetermined`): the code
  sorts with `sort.Slice`, which is not stable, but stages of one phase have
  different names, so that any set of them can be sorted (`CanBeSorted`, by a
  smallest set that cannot) and in one way only (`SortedInOneWay`, by the first
  place where two sorted lists differ).  The theorem also discharges what
  the model takes for granted in `\E nextBatch \in SortedSeqs(released)`: that there is
  such a batch.

`PipelineProofs`, for every set of registries and any number of phases (from
`PipelineAssumption`):

- `PositionInv` ties the set of calls made to the place `<<phase, part, pos>>`.
  It is inductive together with the types, the fact that the phases that were
  entered could be ordered, and the invariants of the result, of the
  diagnostics and of the threaded value.  The lexicographic order of calls, `Before`, has
  lemmas of its own.
- From it: results have their causes, failures are reported exactly once and
  in order, the IR is the latest value, and every step of Pipeline is a step
  of Schedule or leaves its variables alone (`PipelineImplementsSchedule`).

`BuildProofs`, for every command line (from `BuildAssumption`):

- Each step of a command is a step of the orchestrator with the registry that was
  wired, or leaves it alone (`CommandsRunThePipeline`).
- The shared map of objects is filled before it is used (`MapIsFilledBeforeUse`):
  as long as it is empty, the IR is one that the stages which use it reject
  (`KindInv`), since a semantic graph cannot leave the normalize phase before the
  phase's hook was called.
- The module instantiates `PipelineProofs` with the registries of the command
  line (`PlansAreRegistries` discharges its assumption), so that which calls were
  made at a place, and what a result means, need not be proved again
  (`Orchestrated`), and the commands implement `Schedule` and report every failure
  (`CommandsKeepTheSchedule`, `CommandsReportFailures`).  What is added is what the calls of this program do: the type
  of the IR tells which stages have yielded (`ChainInv`), at most one renderer
  ever yields, and the units are its own from then on (`RenderInv`), and the files
  are as the IR says (`WriteInv`).
- From it: files are written for a reason (`FilesHaveACause`), and a build that
  fails fast and exits with 0 wrote everything (`SuccessIsComplete`): all
  renderers must have yielded, so there was one.

`RegistriesProofs`, for every listing, constraint, archive, number of retries and
limit (from `RegistriesAssumption`):

- `Compare` is the lexicographic order (`CompareIsTheOrder`), there is nothing
  between a version and the next patch (`NextPatchIsNext`), so that
  `MatchConstraint` decides membership in the range that a constraint means
  (`MatchIsMembership`).
- The loops over a listing and over candidates are folds.  `FoldExists` says that
  a fold over a finite set is defined, in whatever order it takes the elements; from
  it `CandidatesSteps` and `BestMatchSteps` give what the loops have after each
  element, and with that `BestMatch` finds the highest version the constraint
  admits (`BestMatchIsHighest`, `BestIsRight`).
- The inductive invariant `IInv` counts requests against attempts (`RequestInv`)
  and says what a directory has while an archive is extracted into it
  (`ArchiveInv`): the last content of each file so far, and no more in sum than
  was counted.  A file cut short is the only one, and comes on top of a sum
  that was within the limit; `SumChanges` is what the sum of the files needs.
- From it: answers are explained by their requests (`AnswersAreExplained`), a
  fetch leaves exactly its archive and the disk is bounded
  (`FetchesAreArchives`).

`SystemProofs` holds the proofs of the two components that deal with the operating
system.  About `ExternalProcess`, for pipes, requests, answers and surpluses of any
size (from `SizeAssumption`: there are pipes, requests and answers, of a chunk or
more):

- The inductive invariant `CallInv` adds four facts to `NoChildIsLeft`: reading
  goes on only while the answer is incomplete (`ReadInv`), without which the
  bounds on what was read are not preserved; a process that was left behind
  belongs to a call that still waits for it (`OrphanInv`); what a polite
  child has done so far (`PoliteInv`): it is alive until its answer is complete,
  and begins it only when it has read to the end of the request, so that no
  write of the request can fail; and how far a call is where it reads or waits
  (`PlaceInv`).
- From it: no child is left (`ChildrenAreReaped`), a polite child's answer arrives
  and the descriptor is replaced by a complete handshake only
  (`CallsAreReported`), and somebody always has something to do in a polite call,
  with the one exception (`PoliteCallsMoveOn`).  The last is `NobodyIsStuck`, the
  part of `NoStandstill` that speaks of guards; that the guards are those of the
  steps is TLC's part.

About `Materializer`, for any plans, options, files of the user, and any number of
builds, of calls that fail and of kills (from `MaterializerAssumption`: emissions have
the fields of the source, names are not empty, no unit's directory is the root of the
repository or the directory the user's files stand in, and no content is one of the
two words that stand for a torn and for a missing file):

- `TaskFacts` and `Holds` say what the tasks of a plan are, through `FlattenSeq`:
  their places, and that a directory is followed by just the tasks it holds.
- `Base` is the first inductive invariant: a link leads to a file of the user or
  nowhere, and is where a plan has a link (`DiskInv`); the step within a task fits
  the task, and what is being written does not go nowhere (`BuildInv`); as
  long as nothing has failed a link is made where nothing is (`CleanInv`); and where
  a link is being made and something is in its way, that is in `stuck` (`StuckInv`).  The
  user's files follow from it (`UserFilesAreSafe`): a write gets at one only
  through a link.
- `ProgressInv`: each task that the build is past is held back by an error for its
  directory, has an error of its own, or is settled.  What settles a write may be
  a later write to the same place, so that the last one counts at the end
  (`LastIsAccounted`).  From it: `BuildsConverge` and `ResultIsComplete`.
- `DoneInv` is what a build that ended without an error has left, until another
  one begins: places that belong to one task only and that no step of the same plan
  writes again.  From it: `SecondBuildIsQuiet`.
- `AgreeInv`: until the tasks get to a place the disk and MemFS agree on it,
  then the last task there has been carried out, on the disk only; the end of the
  build brings MemFS along (`ExecuteAgrees`), as the last task at a place is the
  last one of its kind there (`LastOfFacts`).  From it: `MemFSIsAFaithfulDouble`.
- The synchronization of the root is a recursive function over the tasks;
  `SyncedEquation` is that it is defined, `SyncedStep` that one file more is
  right and leaves the files before it right, unless it goes to the same place.
  From it: `RootFollowsTheUnits`.

`DependencyResolverProofs`, for any packages, versions, manifests, registries and
answers (from `ResolverAssumption`), and for every way of putting the resolver
together.  Where a registry extracts into the directory of the cache, `Put` may
empty what it was to copy after it was verified; `Matches` is that exception, and
it is limited to that set-up (`Spoils`) and to what is missing or torn: another
package's content is never merged there either.

- The inductive invariant `IInv` adds to what `LockPinsTheBuild` says of the lock
  file: what the one in memory is, relative to the one on disk (`MemoryInv`: entries
  that are kept or still to be done are those of the disk); that the packages in the tree are
  those that are done, as their entries say (`TreeInv`); and what is known of
  the package in hand (`DependencyInv`: from `Verify` on, the directory that will
  be merged still has the content whose hash was compared, or what `Put` left of
  it, although the registry, the cache and the file system may change at any
  step).
- `FetchedIsMerged`, the part of `LockPinsTheBuild` that says that what is merged was
  there, needs that a local registry gives a hash with every package (`HashInv`),
  since its directory may disappear before it is verified, and that the directory in
  hand is there from then on (`ThereInv`).
- From both: what was merged is pinned (`BuildsArePinned`), and each step is a
  step of `ReproducibleBuild` or a stutter (`BuildsAreReproducible`).  The step
  that ends a build is `Succeed`, for which `TreeInv` says that nothing is
  missing from the tree and `MemoryInv` that no good pin was replaced; it needs
  besides that the lock file is written at the end of the loop only (`EndInv`).

`PlanAndLowerProofs`, for every registry, provider and list of objects: the
steps are few and large, so the lemmas are about what each computes.  A
selection of providers finds the least admissible one (`FirstProvider`,
`Selection`); each outcome of a lowering is one the preservation level admits
(`LoweringOutcomes`); a unit that was resolved and lowered has an outcome for
each active object (`ResolvedUnit`, `LoweredUnit`).  These theorems are stated of
`Spec`, and `RenderersOnlyRead` carries them over to the builds with renderers.
Of the emissions, any number of objects with any fields (from
`RenderersAssumption`):

- A layer is proved to have every object of its group in a file (`Covers`), and
  to attribute the files to what they hold (`Attributed`); the settings files are
  the only ones that hold more (`AttributedBut`).  `RenderedAll` says of each
  renderer which groups its layers cover.  With that, nothing is lost
  (`NothingIsLost`), where a plugin that is in no file has lost each server to an
  earlier one (`OwnerIsFirst`), and `provenance.json` is right about the files
  (`ProvenanceCanBeTrusted`).
- What is not active in a unit and lowered there has a surface that was resolved,
  and what is resolved is required by an active object (`CapabilityInv`), so the
  two share it (`ActiveObjectsAreLowered`, second half).
- An entry's path comes from a scope, from an ID, from an ID and one of the
  object's resources, or is one of a few of the layer's own; entries of different
  origin have different paths (`EntriesAreApart`, `LayersAreApart`).  The proof
  made an exception of the property explicit that the first instance did
  not show: a rule or agent with the ID AGENTS or CLAUDE and an instruction
  that is scoped to the directory of the rules are the same file.

`FrontEndProofs`, for every set of projects, of any size (from
`NormalizerAssumption` and `FrontEndAssumption`: objects of packages extend nothing):

- The normalizer's invariant `IInv` says what each of its loops keeps: the last
  object seen of an ID is in the working set (`CopyInv`); an object waits for the
  mentions of parents that are not placed, and is listed after its parents
  (`KahnInv`); what was merged has the effective values, and what is being merged
  those of its first parents (`MergeInv`).
- A graph is refused for its cause (`CauseIsRight`): what is left over by Kahn's
  loop is a set each of whose members has a parent in it, and of an order no
  such set can be listed, for one of its members would be first.
- The values of `InheritanceIsRight` are defined by recursion over the parents.
  That the recursion has a solution on an acyclic graph is `EffectiveEquation`,
  by the least object in the order for which it would have none.
- The walk of `DetectCycle` recurses over the sets of objects on the way.
  `FoundEquation` is the existence of what it computes; `DetectsCycles` says that
  it finds exactly the objects that are led into a cycle.  With it the verdict on
  a tree is right (`VerdictOnTree`), and `EarlyInv` carries that through the
  stages (`VerdictCorrect`): an external object cannot close a cycle in a tree
  that was let pass.

### That everything comes to an end

Liveness is out of the prover's reach, but not what it rests on besides fairness:
a measure that the steps of the code decrease and the steps around it do not
increase, and, where an outcome is promised, that the promise cannot be lost once
it is made.  These are safety properties, and are proved for every value of the
constants:

| liveness property, checked by TLC | what is proved about it |
|---|---|
| `CancellationIsSeen` (Pipeline) | `RunsComeToAnEnd`: each step of Execute makes `Distance` (phases, parts of a phase, calls of a part that are left) smaller in a lexicographic order, which is proved to be well-founded; `Cancel` leaves it.  `CancelledRunsDoNotSucceed`: `CancelledEarly` stays true until the run ends otherwise than with success (`CancellationSticks`, an action property no run checks, since it is proved) |
| `CommandExits` (Build) | `CommandsComeToAnEnd`: the same with the steps before and after the pipeline; `InterruptedCommandsDoNotSucceed`; both from the theorems of `PipelineProofs`, instantiated |
| `EveryBuildEnds` (DependencyResolver) | `BuildsComeToAnEnd`: a build of k dependencies takes at most 5k + 3 of its own steps; no change of the registry, the cache or the files and no crash adds any.  `LoopInv` (the dependency in hand is still to be done) makes `StepsLeft` fall |
| `CallEnds` (ExternalProcess) | `CallsAreBounded`: a call has at most 2 request + 2 answer + surplus + 6 steps, of parent, timer, child and orphan together; `TheTimeoutFreesTheCall`: the guard of the timer, of the kill or of the parent is true wherever a call is, unless an orphan holds the pipes |

Where no run has a liveness property the measure says the same of the loops:
`SortsComeToAnEnd` (a phase of n stages is sorted after at most n iterations, by
`KahnInvariant`: nothing is placed twice), `FrontEndComesToAnEnd` (parser,
validator and normalizer; the merge loop needs a third component, the parents
left of the object in hand), `RequestsComeToAnEnd` (retries, then the entries of the
archive) and `MaterializingComesToAnEnd` (at most 4n + 1 steps for n tasks, errors
included).

One assumption is needed besides: `BuildsComeToAnEnd` has the hypothesis
`FiniteManifests`, that a manifest mentions finitely many packages.  A manifest is
decoded from a file, and the model's manifests are functions over `Names`, of
which there may be any number.

Only model-checked: liveness itself (`CancellationIsSeen`, `CommandExits`,
`EveryBuildEnds`, `CallEnds`), that is, that fairness turns these measures into
an end, and the part of `NoStandstill` that speaks of ENABLED; both are out of the
prover's reach.

## Plan

What is left, in this order:

1. `LanguageServer`: open documents and life cycle.
2. Packaging; the reporter's assembly of the report.

## Not modelled, and why

Text: what renderers, reporters, packagers and the marketplace generator print
or lay out.  Decoding: YAML, JSON, front matter.  The straight-line commands
(init, targets, version).  The SDK and the plugin registry in `pkg` and
`planner/scope_matcher.go`, which nothing in the program uses.  The language
server, which handles one message after the other over a map of documents, and
packaging are planned.  The reporter is in `Build` as a stage that writes its
two files and may fail.
