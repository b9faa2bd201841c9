----------------------------- MODULE Pipeline -----------------------------
(***************************************************************************)
(* The pipeline orchestrator (internal/application/compiler/pipeline.go):  *)
(* Execute walks the phases in order and executePhase runs, in each, the   *)
(* before-phase hooks, the stages in the order the registry gives them and *)
(* the after-phase hooks.  One value, the IR, is threaded through all of   *)
(* them.                                                                   *)
(*                                                                         *)
(* Stages and hooks are black boxes: a call may return a value, nil or an  *)
(* error.  The value a call returns is named by the call, so that ir says  *)
(* whose output the next call will see.                                    *)
(***************************************************************************)
EXTENDS Integers, Sequences, FiniteSets

CONSTANTS
  NPhases,     \* the number of phases of AllPhases
  Stages,      \* the stages that may be registered
  Hooks,       \* the hooks that may be registered
  NoHandler,   \* the hooks whose Handler is nil
  Plans        \* the registries Execute may be called with

Phase == 1 .. NPhases

\* What the registry answers for a phase: StagesForPhase, which fails when the
\* constraints form a cycle, and HooksForPhase for the two hook points it is asked for.
PhasePlan == [ordered : BOOLEAN,
              stages  : Seq(Stages),
              before  : Seq(Hooks),
              after   : Seq(Hooks)]

ASSUME PipelineAssumption ==
  /\ NPhases \in Nat \ {0}
  /\ NoHandler \subseteq Hooks
  /\ Plans \subseteq [Phase -> PhasePlan]

VARIABLES
  plan,         \* the registry, fixed during a run
  failFast,     \* config.FailFast
  cancelled,    \* ctx is done
  phase,        \* the phase executePhase works on
  pc,           \* where in executePhase: "before", "stages", "stage", "after", "end"
  pos,          \* the index of the loop pc stands in
  ir,           \* the value threaded through the calls: the call it came from
  outcome,      \* of each call: "none", "value", "nil" or "error"
  diagnostics,  \* report.Diagnostics, as the calls they are about
  result        \* "running", "ok", or which error Execute returned

vars == <<plan, failFast, cancelled, phase, pc, pos, ir, outcome, diagnostics, result>>

-----------------------------------------------------------------------------
(***************************************************************************)
(* The calls of a run                                                      *)
(***************************************************************************)

\* The parts of a phase, in the order executePhase runs them.
BeforePart == 1
StagePart  == 2
AfterPart  == 3

CallsOf(p) ==
  {<<p, BeforePart, i>> : i \in {i \in DOMAIN plan[p].before :
                                   plan[p].before[i] \notin NoHandler}}
    \cup {<<p, StagePart, i>> : i \in DOMAIN plan[p].stages}
    \cup {<<p, AfterPart, i>> : i \in {i \in DOMAIN plan[p].after :
                                         plan[p].after[i] \notin NoHandler}}

Calls == UNION {CallsOf(p) : p \in Phase}

StageCalls == {c \in Calls : c[2] = StagePart}

Part == CASE pc = "before" -> BeforePart
          [] pc = "after"  -> AfterPart
          [] OTHER         -> StagePart

\* Where the initial IR, the root paths, comes from.
Root == <<0, 0, 0>>

\* The call the pipeline is at.
Here == <<phase, Part, pos>>

\* The hooks runHooks walks at this point.
HookList == IF pc = "before" THEN plan[phase].before ELSE plan[phase].after

-----------------------------------------------------------------------------
Init ==
  /\ plan \in Plans
  /\ failFast \in BOOLEAN
  /\ cancelled = FALSE
  /\ phase = 1
  /\ pc = "before"
  /\ pos = 1
  /\ ir = Root
  /\ outcome = [c \in Calls |-> "none"]
  /\ diagnostics = <<>>
  /\ result = "running"

\* Execute returns.
Return(r) == pc' = "end" /\ result' = r

\* Mutant: a nil output replaces the IR.
Record_NilOutput(o) ==
  /\ outcome' = [outcome EXCEPT ![Here] = o]
  /\ ir' = IF o # "error" THEN Here ELSE ir

\* The call the pipeline is at returned o; a nil output and an error leave the
\* IR as it is.
Record(o) ==
  /\ outcome' = [outcome EXCEPT ![Here] = o]
  /\ ir' = IF o = "value" THEN Here ELSE ir

\* Mutant: an error of a hook is passed over.
RunHook_KeepGoing(o) ==
  /\ pc \in {"before", "after"}
  /\ pos <= Len(HookList)
  /\ HookList[pos] \notin NoHandler
  /\ Record(o)
  /\ pos' = pos + 1
  /\ UNCHANGED <<plan, failFast, cancelled, phase, pc, diagnostics, result>>

\* runHooks calls a hook.  An error of a hook ends the run, FailFast or not,
\* and leaves no diagnostic.
RunHook(o) ==
  /\ pc \in {"before", "after"}
  /\ pos <= Len(HookList)
  /\ HookList[pos] \notin NoHandler
  /\ Record(o)
  /\ IF o = "error"
       THEN Return("hook") /\ UNCHANGED pos
       ELSE pos' = pos + 1 /\ UNCHANGED <<pc, result>>
  /\ UNCHANGED <<plan, failFast, cancelled, phase, diagnostics>>

\* runHooks skips a hook that has no handler.
SkipHook ==
  /\ pc \in {"before", "after"}
  /\ pos <= Len(HookList)
  /\ HookList[pos] \in NoHandler
  /\ pos' = pos + 1
  /\ UNCHANGED <<plan, failFast, cancelled, phase, pc, ir, outcome, diagnostics, result>>

\* The before-phase hooks are done: the registry is asked for the stages.
OrderStages ==
  /\ pc = "before"
  /\ pos > Len(plan[phase].before)
  /\ IF plan[phase].ordered
       THEN pc' = "stages" /\ pos' = 1 /\ UNCHANGED result
       ELSE Return("order") /\ UNCHANGED pos
  /\ UNCHANGED <<plan, failFast, cancelled, phase, ir, outcome, diagnostics>>

\* Mutant: ctx is looked at ahead of the first stage of a phase only.
StartStage_FirstOnly ==
  /\ pc = "stages"
  /\ pos <= Len(plan[phase].stages)
  /\ IF cancelled /\ pos = 1
       THEN Return("cancelled")
       ELSE pc' = "stage" /\ UNCHANGED result
  /\ UNCHANGED <<plan, failFast, cancelled, phase, pos, ir, outcome, diagnostics>>

\* The select on ctx.Done() ahead of a stage, and the call of Execute.
StartStage ==
  /\ pc = "stages"
  /\ pos <= Len(plan[phase].stages)
  /\ IF cancelled
       THEN Return("cancelled")
       ELSE pc' = "stage" /\ UNCHANGED result
  /\ UNCHANGED <<plan, failFast, cancelled, phase, pos, ir, outcome, diagnostics>>

\* Mutant: the run is ended before the diagnostic is recorded.
FinishStage_Silent(o) ==
  /\ pc = "stage"
  /\ Record(o)
  /\ IF o = "error" /\ failFast
       THEN Return("stage") /\ UNCHANGED <<pos, diagnostics>>
       ELSE /\ pc' = "stages"
            /\ pos' = pos + 1
            /\ diagnostics' = IF o = "error" THEN Append(diagnostics, Here) ELSE diagnostics
            /\ UNCHANGED result
  /\ UNCHANGED <<plan, failFast, cancelled, phase>>

\* A stage returns.  Its error is recorded as a diagnostic; then the run ends,
\* or without FailFast the next stage gets the IR this one got.
FinishStage(o) ==
  /\ pc = "stage"
  /\ Record(o)
  /\ diagnostics' = IF o = "error" THEN Append(diagnostics, Here) ELSE diagnostics
  /\ IF o = "error" /\ failFast
       THEN Return("stage") /\ UNCHANGED pos
       ELSE pc' = "stages" /\ pos' = pos + 1 /\ UNCHANGED result
  /\ UNCHANGED <<plan, failFast, cancelled, phase>>

\* Mutant: the index of the stages is used for the hooks.
FinishStages_KeepIndex ==
  /\ pc = "stages"
  /\ pos > Len(plan[phase].stages)
  /\ pc' = "after"
  /\ UNCHANGED <<plan, failFast, cancelled, phase, pos, ir, outcome, diagnostics, result>>

\* The stages of the phase are done.
FinishStages ==
  /\ pc = "stages"
  /\ pos > Len(plan[phase].stages)
  /\ pc' = "after"
  /\ pos' = 1
  /\ UNCHANGED <<plan, failFast, cancelled, phase, ir, outcome, diagnostics, result>>

\* executePhase returns the IR to Execute, which goes to the next phase.
FinishPhase ==
  /\ pc = "after"
  /\ pos > Len(plan[phase].after)
  /\ IF phase = NPhases
       THEN Return("ok") /\ UNCHANGED <<phase, pos>>
       ELSE /\ phase' = phase + 1
            /\ pc' = "before"
            /\ pos' = 1
            /\ UNCHANGED result
  /\ UNCHANGED <<plan, failFast, cancelled, ir, outcome, diagnostics>>

\* The caller's context ends: a signal, at any time.
Cancel ==
  /\ ~ cancelled
  /\ cancelled' = TRUE
  /\ UNCHANGED <<plan, failFast, phase, pc, pos, ir, outcome, diagnostics, result>>

Outcomes == {"value", "nil", "error"}

Advance ==
  \/ \E o \in Outcomes : RunHook(o) \/ FinishStage(o)
  \/ SkipHook
  \/ OrderStages
  \/ StartStage
  \/ FinishStages
  \/ FinishPhase

Next == Advance \/ Cancel

Spec == Init /\ [][Next]_vars

\* Execute is one goroutine, and every stage and every hook returns.
FairSpec == Spec /\ WF_vars(Advance)
-----------------------------------------------------------------------------
(***************************************************************************)
(* Properties                                                              *)
(***************************************************************************)

Before(a, b) ==
  \/ a[1] < b[1]
  \/ a[1] = b[1] /\ a[2] < b[2]
  \/ a[1] = b[1] /\ a[2] = b[2] /\ a[3] < b[3]

Done == {c \in Calls : outcome[c] # "none"}

Failed == {c \in Calls : outcome[c] = "error"}

\* The failures that end a run: of a hook, or of a stage when failing fast.
Fatal == {c \in Calls : c[2] # StagePart \/ failFast}

\* The variables have their types.
TypeOK ==
  /\ plan \in Plans
  /\ failFast \in BOOLEAN
  /\ cancelled \in BOOLEAN
  /\ phase \in Phase
  /\ pc \in {"before", "stages", "stage", "after", "end"}
  /\ pos \in Nat \ {0}
  /\ ir \in Calls \cup {Root}
  /\ outcome \in [Calls -> {"none"} \cup Outcomes]
  /\ diagnostics \in Seq(StageCalls)
  /\ result \in {"running", "ok", "stage", "hook", "order", "cancelled"}
  /\ pc = "end" <=> result # "running"
  /\ pc = "stage" => pos <= Len(plan[phase].stages)

\* Wherever the pipeline stands, it has made exactly the calls that come
\* before that place: none was skipped and none was made early.  A failure
\* that should have ended the run is not among them.
PositionInv ==
  pc # "end" =>
    /\ Done = {c \in Calls : Before(c, Here)}
    /\ Failed \cap Fatal = {}

\* Execute's answer has the cause it names.  Success means every call of every
\* phase was made, and none whose failure should have ended the run failed; an
\* error of a stage or a hook is that of the last call made.
ResultIsExplained ==
  /\ result = "ok" => /\ Done = Calls
                      /\ Failed \cap Fatal = {}
                      /\ \A p \in Phase : plan[p].ordered
  /\ result \in {"stage", "hook"} =>
       \E c \in Failed \cap Fatal :
         /\ result = "stage" <=> c \in StageCalls
         /\ Done = {b \in Calls : Before(b, c)} \cup {c}
         /\ Failed \cap Fatal = {c}
  /\ result = "order" => ~ plan[phase].ordered /\ \A c \in Done : c[1] <= phase
  /\ result = "cancelled" => cancelled /\ Done # Calls

\* Execute's comment, "accumulating diagnostics": each stage that failed is
\* reported exactly once, in the order of the run, the one that ended a
\* fail-fast run included.
EveryFailureReported ==
  /\ {diagnostics[i] : i \in DOMAIN diagnostics} = Failed \cap StageCalls
  /\ \A i, j \in DOMAIN diagnostics : i < j => Before(diagnostics[i], diagnostics[j])

\* executePhase, `if output != nil`: the next call sees the value of the last
\* call that returned one, over failures, nil outputs and the ends of phases.
LatestValueThreaded ==
  LET valued == {c \in Calls : outcome[c] = "value"}
  IN IF valued = {}
       THEN ir = Root
       ELSE ir \in valued /\ \A c \in valued \ {ir} : Before(c, ir)

\* The run is cancelled and a stage is still to be started.
CancelledEarly ==
  /\ cancelled
  /\ pc # "end"
  /\ \E c \in StageCalls \ Done : ~ (pc = "stage" /\ c = Here)

\* A run that is cancelled while a stage is still to be started does not
\* succeed, however few stages and however many hooks are left.
CancellationIsSeen == CancelledEarly ~> result \notin {"running", "ok"}

\* The safety of it: no step gets such a run past the stages that are left, until
\* it ends without success.
CancellationSticks ==
  [][CancelledEarly => CancelledEarly' \/ result' \notin {"running", "ok"}]_vars

Status == IF result \in {"running", "ok"} THEN result ELSE "failed"

\* The pipeline makes a fixed list of calls in order, each at most once, and
\* succeeds only when all were made.
S == INSTANCE Schedule
       WITH calls  <- Calls,
            fatal  <- Fatal,
            done   <- Done,
            failed <- Failed,
            value  <- ir,
            status <- Status

ImplementsSchedule == S!Spec
=============================================================================
