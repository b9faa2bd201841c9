------------------------------- MODULE Build -------------------------------
(***************************************************************************)
(* The commands `goagentmeta build` and `goagentmeta validate`: the        *)
(* pipeline of module Pipeline with the stages the command line wires into *)
(* it (internal/adapter/cli), what each of them accepts and yields, what   *)
(* they leave on disk, and the status the process exits with.              *)
(*                                                                         *)
(* An IR is its Go type, which every stage checks before anything else,    *)
(* and the targets it has build units for.  Why a stage fails on input of  *)
(* the right type is left open: it may.                                    *)
(***************************************************************************)
EXTENDS Integers, Sequences, FiniteSets, SequencesExt

CONSTANT Invocations   \* the command lines

Targets == {"claude", "codex", "copilot", "cursor"}

SyncModes == {"build-only", "copy", "symlink"}

\* A command line.  asked is the list of -t flags, the names of targets or
\* "all"; a name that is neither ends the command before there is a pipeline.
Invocation == [command  : {"build", "validate"},
               asked    : Seq(Targets \cup {"all"}),
               failFast : BOOLEAN,
               dryRun   : BOOLEAN,
               sync     : SyncModes]

ASSUME BuildAssumption == Invocations \subseteq Invocation

VARIABLES
  plan, failFast, cancelled, phase, pc, pos, ir, outcome, diagnostics, result,
  args,      \* the command line
  data,      \* the IR itself: [kind, units]
  objects,   \* the map that normalizeHook fills is filled
  files,     \* of each target, how much of its output was written in this run
  reports,   \* the report files written in this run
  code,      \* the exit code runBuild or runValidate asks for, or NotYet
  exit       \* the status of the process, or NotYet

NotYet == -1

pipeline == <<plan, failFast, cancelled, phase, pc, pos, ir, outcome, diagnostics, result>>

own == <<args, data, objects, files, reports, code, exit>>

-----------------------------------------------------------------------------
(***************************************************************************)
(* Wiring                                                                  *)
(***************************************************************************)

Parse       == 1
Validate    == 2
Resolve     == 3
Normalize   == 4
Plan        == 5
Capability  == 6
Lower       == 7
Render      == 8
Materialize == 9
Report      == 10

\* The one stage of each phase but the render phase.
StageOf == <<"source-parser", "schema-validator", "dependency-resolver", "normalizer",
             "planner", "capability-resolver", "lowering-engine", "-",
             "materializer", "reporter">>

\* resolveTargets, and the default of wirePipeline: no flag, or "all" among
\* the flags, means every target.
TargetsOf(inv) ==
  LET asked == ToSet(inv.asked)
  IN IF asked = {} \/ "all" \in asked THEN Targets ELSE asked

\* The renderers of the targets, as the registry orders them: all have Order 10,
\* so by name.
RenderersOf(inv) ==
  LET only(t) == IF t \in TargetsOf(inv) THEN <<t>> ELSE <<>>
  IN only("claude") \o only("codex") \o only("copilot") \o only("cursor")

NoHooks == [ordered |-> TRUE, stages |-> <<>>, before |-> <<>>, after |-> <<>>]

\* Mutant: the bridge is attached to the start of the phase.
WirePipeline_BridgeBefore(inv) ==
  [p \in 1 .. 10 |->
     [NoHooks EXCEPT
        !.stages = IF p = Render THEN RenderersOf(inv) ELSE <<StageOf[p]>>,
        !.before = IF p = Normalize THEN <<"normalize-objects-bridge">> ELSE <<>>]]

\* wirePipeline registers all the stages, the renderers of the targets (the
\* second registration of a target given twice fails and is ignored), and the
\* hook that copies the normalized objects.
WirePipeline(inv) ==
  [p \in 1 .. 10 |->
     [NoHooks EXCEPT
        !.stages = IF p = Render THEN RenderersOf(inv) ELSE <<StageOf[p]>>,
        !.after  = IF p = Normalize THEN <<"normalize-objects-bridge">> ELSE <<>>]]

\* runValidate registers three stages and no hook.
WireValidate ==
  [p \in 1 .. 10 |->
     [NoHooks EXCEPT
        !.stages = IF p \in {Parse, Validate, Normalize} THEN <<StageOf[p]>> ELSE <<>>]]

Wiring(inv) == IF inv.command = "build" THEN WirePipeline(inv) ELSE WireValidate

P == INSTANCE Pipeline
       WITH NPhases   <- 10,
            Stages    <- ToSet(StageOf) \cup Targets,
            Hooks     <- {"normalize-objects-bridge"},
            NoHandler <- {},
            Plans     <- {Wiring(inv) : inv \in Invocations}

vars == <<pipeline, own>>

Init ==
  /\ args \in Invocations
  /\ P!Init
  /\ plan = Wiring(args)
  /\ failFast = IF args.command = "build" THEN args.failFast ELSE TRUE
  /\ data = [kind |-> "paths", units |-> {}]
  /\ objects = FALSE
  /\ files = [t \in Targets |-> "none"]
  /\ reports = {}
  /\ code = NotYet
  /\ exit = NotYet

-----------------------------------------------------------------------------
(***************************************************************************)
(* The stages                                                              *)
(***************************************************************************)

\* The type each phase's stages accept, and the type they yield.
Accepts == <<"paths", "tree", "tree", "tree", "semantic", "plan", "capability", "lowered",
             "emission", "materialized">>
Yields  == <<"tree", "tree", "tree", "semantic", "plan", "capability", "lowered", "emission",
             "materialized", "report">>

\* Every stage begins with a type assertion on its input.
RejectInput ==
  /\ pc = "stage"
  /\ data.kind # Accepts[phase]
  /\ P!FinishStage("error")
  /\ UNCHANGED own

\* The stages of the phases up to lowering turn one IR into the next, and on
\* an error return nothing the pipeline uses.  The planner makes a unit for
\* every target.
TransformIR ==
  /\ pc = "stage"
  /\ phase \in Parse .. Lower
  /\ data.kind = Accepts[phase]
  /\ \/ /\ P!FinishStage("value")
        /\ data' = [kind  |-> Yields[phase],
                    units |-> IF phase = Plan THEN TargetsOf(args) ELSE data.units]
     \/ /\ P!FinishStage("error")
        /\ UNCHANGED data
  /\ UNCHANGED <<args, objects, files, reports, code, exit>>

\* Mutant: a renderer takes the units of all targets.
RenderUnits_All ==
  /\ pc = "stage"
  /\ phase = Render
  /\ data.kind = Accepts[phase]
  /\ \/ /\ P!FinishStage("value")
        /\ data' = [data EXCEPT !.kind = Yields[phase]]
     \/ /\ P!FinishStage("error")
        /\ UNCHANGED data
  /\ UNCHANGED <<args, objects, files, reports, code, exit>>

\* A renderer puts the units of its own target into its EmissionPlan, and
\* nothing else.
RenderUnits ==
  /\ pc = "stage"
  /\ phase = Render
  /\ data.kind = Accepts[phase]
  /\ \/ /\ P!FinishStage("value")
        /\ data' = [kind  |-> Yields[phase],
                    units |-> data.units \cap {plan[Render].stages[pos]}]
     \/ /\ P!FinishStage("error")
        /\ UNCHANGED data
  /\ UNCHANGED <<args, objects, files, reports, code, exit>>

\* Mutant: the partial result is used even when failing fast.
WriteFiles_Partial ==
  /\ pc = "stage"
  /\ phase = Materialize
  /\ data.kind = Accepts[phase]
  /\ P!FinishStage("value")
  /\ data' = [data EXCEPT !.kind = Yields[phase]]
  /\ IF args.dryRun
       THEN UNCHANGED files
       ELSE \E written \in [data.units -> {"none", "part", "all"}] :
              files' = [t \in Targets |-> IF t \in data.units THEN written[t] ELSE files[t]]
  /\ UNCHANGED <<args, objects, reports, code, exit>>

\* The materializer.  A dry run is simulated.  Otherwise each unit is written
\* as far as its files can be, and any failure fails the stage when failing
\* fast, else the partial result is used.  With a sync mode, the stage fails
\* after everything is written: applySyncMode wants a materializer that is a
\* Reader and a Writer, and the OSMaterializer that is wired is neither.
WriteFiles ==
  /\ pc = "stage"
  /\ phase = Materialize
  /\ data.kind = Accepts[phase]
  /\ \/ /\ args.dryRun
        /\ P!FinishStage("value")
        /\ data' = [data EXCEPT !.kind = Yields[phase]]
        /\ UNCHANGED files
     \/ /\ ~ args.dryRun
        /\ \E written \in [data.units -> {"none", "part", "all"}] :
             /\ files' = [t \in Targets |-> IF t \in data.units THEN written[t] ELSE files[t]]
             /\ IF failFast /\ (\/ \E t \in data.units : written[t] # "all"
                               \/ args.sync # "build-only")
                  THEN P!FinishStage("error") /\ UNCHANGED data
                  ELSE /\ P!FinishStage("value")
                       /\ data' = [data EXCEPT !.kind = Yields[phase]]
  /\ UNCHANGED <<args, objects, reports, code, exit>>

\* The reporter stage writes the JSON report and then the Markdown one, in a
\* dry run too.  A write that fails ends the stage when failing fast.
WriteReports ==
  /\ pc = "stage"
  /\ phase = Report
  /\ data.kind = Accepts[phase]
  /\ \E written \in SUBSET {"json", "md"} :
       /\ reports' = written
       /\ \/ /\ failFast /\ written \in {{}, {"json"}}
             /\ P!FinishStage("error")
             /\ UNCHANGED data
          \/ /\ failFast => written = {"json", "md"}
             /\ P!FinishStage("value")
             /\ data' = [data EXCEPT !.kind = Yields[phase]]
  /\ UNCHANGED <<args, objects, files, code, exit>>

\* normalizeHook fills the shared map if the IR is a SemanticGraph, and
\* returns the IR it was given.
BridgeObjects ==
  /\ P!RunHook("value")
  /\ objects' = (objects \/ data.kind = "semantic")
  /\ UNCHANGED <<args, data, files, reports, code, exit>>

-----------------------------------------------------------------------------
(***************************************************************************)
(* The process                                                             *)
(***************************************************************************)

\* Mutant: the command waits for the context of an interrupted run.
ReturnToMain_WaitForContext ==
  /\ pc = "end"
  /\ result = "cancelled" => ~ cancelled
  /\ exit = NotYet
  /\ code' = IF result = "ok" THEN 0 ELSE IF cancelled THEN 2 ELSE 1
  /\ exit' = IF code' = 0 THEN 0 ELSE 1
  /\ UNCHANGED <<pipeline, args, data, objects, files, reports>>

\* runBuild and runValidate: an error of Execute while the context is done asks
\* for code 2, another error for 1, no error is success.  main exits with 1 on
\* any error; nothing reads the code of an exitError.
ReturnToMain ==
  /\ pc = "end"
  /\ exit = NotYet
  /\ code' = IF result = "ok" THEN 0 ELSE IF cancelled THEN 2 ELSE 1
  /\ exit' = IF code' = 0 THEN 0 ELSE 1
  /\ UNCHANGED <<pipeline, args, data, objects, files, reports>>

\* SIGINT or SIGTERM.
Interrupt ==
  /\ exit = NotYet
  /\ P!Cancel
  /\ UNCHANGED own

\* The steps of Execute that only move the pipeline.
Walk == (P!OrderStages \/ P!StartStage \/ P!FinishStages \/ P!FinishPhase) /\ UNCHANGED own

Advance ==
  \/ Walk
  \/ RejectInput
  \/ TransformIR
  \/ RenderUnits
  \/ WriteFiles
  \/ WriteReports
  \/ BridgeObjects
  \/ ReturnToMain

Next == Advance \/ Interrupt

Spec == Init /\ [][Next]_vars

\* One goroutine runs the command, and every stage returns.
FairSpec == Spec /\ WF_vars(Advance)

-----------------------------------------------------------------------------
(***************************************************************************)
(* Properties                                                              *)
(***************************************************************************)

\* The variables have their types; the process outlives the pipeline.
TypeOK ==
  /\ P!TypeOK
  /\ args \in Invocations
  /\ data \in [kind : {"paths"} \cup ToSet(Yields), units : SUBSET TargetsOf(args)]
  /\ objects \in BOOLEAN
  /\ files \in [Targets -> {"none", "part", "all"}]
  /\ reports \subseteq {"json", "md"}
  /\ code \in {NotYet, 0, 1, 2}
  /\ exit \in {NotYet, 0, 1}
  /\ exit # NotYet => pc = "end"

\* The stage at index i of phase p returned a value.
Yielded(p, i) == <<p, P!StagePart, i>> \in P!Calls /\ outcome[<<p, P!StagePart, i>>] = "value"

Rendered(t) ==
  \E i \in DOMAIN plan[Render].stages : plan[Render].stages[i] = t /\ Yielded(Render, i)

\* Files of a target are written only by a real build that was asked for the
\* target, and only if every stage its output is made by succeeded; without
\* FailFast too, where the pipeline carries on after failures.  Only failures
\* of the validator and of the dependency resolver can be carried through.
FilesAreJustified ==
  /\ TypeOK
  /\ \A t \in Targets : files[t] # "none" =>
       /\ args.command = "build" /\ ~ args.dryRun /\ t \in TargetsOf(args)
       /\ \A p \in {Parse, Normalize, Plan, Capability, Lower} : Yielded(p, 1)
       /\ Rendered(t)
       /\ failFast => Yielded(Validate, 1) /\ Yielded(Resolve, 1)

\* A build that fails fast and exits with 0 has written every file of every
\* target it was asked for, or would have in a dry run, and both reports.
FailFastSuccessIsComplete ==
  exit = 0 /\ failFast /\ args.command = "build" =>
    /\ \A t \in TargetsOf(args) : Rendered(t)
    /\ ~ args.dryRun => \A t \in TargetsOf(args) : files[t] = "all"
    /\ reports = {"json", "md"}

\* wirePipeline: the shared map is "populated after normalize phase, consumed by
\* capability, lowering, and renderer stages".  None of these produces anything
\* from a map that is still empty.
LateBinding ==
  (\E p \in {Capability, Lower, Render} : \E i \in DOMAIN plan[p].stages : Yielded(p, i))
    => objects

\* Every command exits.
CommandExits == <>(exit # NotYet)

(* What the documentation says of the commands and the code does not do.     *)

\* compiler.md: the renderer phase "dispatches each build unit to the renderer
\* plugin matching the unit's target".  Once lowering has succeeded, every
\* renderer is given the lowered graph to find the units of its target in.
EveryRendererGetsTheLoweredGraph ==
  pc = "stage" /\ phase = Render /\ Yielded(Lower, 1) => data.kind = "lowered"
=============================================================================
