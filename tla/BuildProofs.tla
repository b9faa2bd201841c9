---------------------------- MODULE BuildProofs ----------------------------
(***************************************************************************)
(* For every command line: the commands drive the pipeline as it allows,   *)
(* no stage works on a map of objects that is still empty, files are       *)
(* written for a reason, and a success has written all of them.            *)
(*                                                                         *)
(* The last two rest on the theorems of PipelineProofs, which say which    *)
(* calls have been made wherever the pipeline stands and when it succeeds. *)
(* What is left to prove here is what the calls of this program do: the    *)
(* type of the IR tells which stages have yielded (ChainInv), at most one  *)
(* renderer does (RenderInv), and the files are as the IR says (WriteInv). *)
(* Last, that every command comes to an end, and an interrupted one not to *)
(* a success.                                                              *)
(***************************************************************************)
EXTENDS Build, TLAPS, WellFoundedInduction

\* As long as the map is empty, the IR is one that the stages which use the map
\* reject.  A semantic graph gets no further than the hook of its phase.
KindInv ==
  args.command = "build" /\ ~ objects =>
    \/ data.kind \in {"paths", "tree"}
    \/ data.kind = "semantic" /\ phase = Normalize /\ (pc = "after" => pos = 1)

Users == {Capability, Lower, Render}

UsersInv ==
  args.command = "build" /\ ~ objects =>
    \A p \in Users : \A i : <<p, P!StagePart, i>> \in P!Calls =>
      outcome[<<p, P!StagePart, i>>] # "value"

IInv ==
  /\ plan = Wiring(args)
  /\ args.command \in {"build", "validate"}
  /\ phase \in Nat /\ pos \in Nat \ {0}
  /\ DOMAIN outcome = P!Calls
  /\ KindInv
  /\ UsersInv

-----------------------------------------------------------------------------
\* What the wiring has at the two ends of the argument.
LEMMA NormalizeHook ==
  ASSUME NEW inv
  PROVE  WirePipeline(inv)[Normalize].after = <<"normalize-objects-bridge">>
<1> DEFINE S(p) == IF p = Render THEN RenderersOf(inv) ELSE <<StageOf[p]>>
<1>1. WirePipeline(inv) =
        [p \in 1 .. 10 |->
           [NoHooks EXCEPT !.stages = S(p),
                           !.after = IF p = Normalize THEN <<"normalize-objects-bridge">> ELSE <<>>]]
  BY DEF WirePipeline
<1> HIDE DEF S
<1>2. Normalize \in 1 .. 10 BY DEF Normalize
<1>3. WirePipeline(inv)[Normalize] =
        [NoHooks EXCEPT !.stages = S(Normalize), !.after = <<"normalize-objects-bridge">>]
  BY <1>1, <1>2
<1> QED BY <1>3 DEF NoHooks

LEMMA ValidateHasNoUsers ==
  ASSUME NEW p \in Users
  PROVE  WireValidate[p].stages = <<>>
<1>1. p \in 1 .. 10 /\ p \notin {Parse, Validate, Normalize}
  BY DEF Users, Capability, Lower, Render, Parse, Validate, Normalize
<1> QED BY <1>1 DEF WireValidate, NoHooks

-----------------------------------------------------------------------------
\* Every step is one of the pipeline, or leaves it alone.
LEMMA StepIsAStep == [Next]_vars => [P!Next]_(P!vars)
<1> SUFFICES ASSUME [Next]_vars PROVE [P!Next]_(P!vars)
  OBVIOUS
<1>1. \A o \in {"value", "nil", "error"} : P!FinishStage(o) \/ P!RunHook(o) => P!Next
  BY DEF P!Next, P!Advance, P!Outcomes
<1>2. CASE Walk
  BY <1>2 DEF Walk, P!Next, P!Advance
<1>3. CASE RejectInput \/ TransformIR \/ RenderUnits \/ WriteReports \/ BridgeObjects
  BY <1>1, <1>3 DEF RejectInput, TransformIR, RenderUnits, WriteReports, BridgeObjects
<1>4. CASE WriteFiles
  BY <1>1, <1>4 DEF WriteFiles
<1>5. CASE Interrupt
  BY <1>5 DEF Interrupt, P!Next
<1>6. CASE ReturnToMain \/ UNCHANGED vars
  BY <1>6 DEF ReturnToMain, vars, pipeline, P!vars
<1> QED BY <1>2, <1>3, <1>4, <1>5, <1>6 DEF Next, Advance

(* What build and validate do is a run of the orchestrator, so that all    *)
(* that is proved of the orchestrator holds of the commands.               *)
THEOREM CommandsRunThePipeline == Spec => P!Spec
<1>1. Init => P!Init BY DEF Init
<1> QED BY <1>1, StepIsAStep, PTL DEF Spec, P!Spec

-----------------------------------------------------------------------------
(***************************************************************************)
(* The map of objects                                                      *)
(***************************************************************************)

LEMMA InitInv == Init => IInv
<1> SUFFICES ASSUME Init PROVE IInv
  OBVIOUS
<1>1. args.command \in {"build", "validate"} BY BuildAssumption DEF Init, Invocation
<1>2. /\ phase = 1 /\ pos = 1 /\ outcome = [c \in P!Calls |-> "none"]
      /\ data.kind = "paths" /\ plan = Wiring(args)
  BY DEF Init, P!Init
<1>3. KindInv BY <1>2 DEF KindInv
<1>4. UsersInv BY <1>2 DEF UsersInv
<1> QED BY <1>1, <1>2, <1>3, <1>4 DEF IInv

\* The pipeline's own part of the invariant.
LEMMA PipelineInv ==
  ASSUME IInv, [P!Next]_(P!vars), args' = args
  PROVE  /\ plan' = Wiring(args') /\ P!Calls' = P!Calls
         /\ phase' \in Nat /\ pos' \in Nat \ {0}
         /\ DOMAIN outcome' = P!Calls'
<1>1. plan' = plan
  BY DEF P!Next, P!Advance, P!vars, P!RunHook, P!FinishStage, P!SkipHook, P!OrderStages,
         P!StartStage, P!FinishStages, P!FinishPhase, P!Cancel
<1>2. P!Calls' = P!Calls BY <1>1 DEF P!Calls, P!CallsOf, P!Phase
<1>3. phase' \in Nat /\ pos' \in Nat \ {0}
  BY DEF IInv, P!Next, P!Advance, P!vars, P!RunHook, P!FinishStage, P!SkipHook,
         P!OrderStages, P!StartStage, P!FinishStages, P!FinishPhase, P!Cancel
<1>4. DOMAIN outcome' = DOMAIN outcome
  BY DEF P!Next, P!Advance, P!vars, P!RunHook, P!FinishStage, P!SkipHook, P!OrderStages,
         P!StartStage, P!FinishStages, P!FinishPhase, P!Cancel, P!Record
<1> QED BY <1>1, <1>2, <1>3, <1>4 DEF IInv

\* A stage that uses the map and finds it empty rejects its input.
LEMMA StageInv ==
  ASSUME IInv, RejectInput \/ TransformIR \/ RenderUnits \/ WriteFiles \/ WriteReports,
         P!Calls' = P!Calls
  PROVE  KindInv' /\ UsersInv'
<1>1. /\ UNCHANGED <<args, objects>>
      /\ \E o \in {"value", "error"} : P!FinishStage(o)
  BY DEF RejectInput, TransformIR, RenderUnits, WriteFiles, WriteReports, own
<1>2. /\ pc = "stage" /\ phase' = phase /\ pc' # "after"
      /\ \E o : outcome' = [outcome EXCEPT ![<<phase, P!StagePart, pos>>] = o]
  BY <1>1 DEF P!FinishStage, P!Record, P!Return, P!Here, P!Part
<1>3. SUFFICES ASSUME args.command = "build", ~ objects
               PROVE  KindInv' /\ UsersInv'
  BY <1>1 DEF KindInv, UsersInv
<1>4. data.kind \in {"paths", "tree"} \/ (data.kind = "semantic" /\ phase = Normalize)
  BY <1>3 DEF IInv, KindInv
<1>5. /\ Accepts[1] = "paths" /\ Accepts[2] = "tree" /\ Accepts[3] = "tree"
      /\ Accepts[4] = "tree" /\ Accepts[5] = "semantic" /\ Accepts[6] = "plan"
      /\ Accepts[7] = "capability" /\ Accepts[8] = "lowered" /\ Accepts[9] = "emission"
      /\ Accepts[10] = "materialized"
      /\ Yields[1] = "tree" /\ Yields[2] = "tree" /\ Yields[3] = "tree"
      /\ Yields[4] = "semantic"
  BY DEF Accepts, Yields
<1>6. phase \in Users => RejectInput
  BY <1>4, <1>5 DEF Users, Capability, Lower, Render, Normalize, Materialize, Report,
                    TransformIR, RenderUnits, WriteFiles, WriteReports
<1>7. \/ data' = data
      \/ TransformIR /\ data'.kind = Yields[phase] /\ data.kind = Accepts[phase]
  BY <1>4, <1>5 DEF RejectInput, TransformIR, RenderUnits, WriteFiles, WriteReports, own,
                    Normalize, Render, Materialize, Report
<1>8. KindInv'
  <2>1. TransformIR => phase \in 1 .. 7 /\ phase \in Nat
    BY DEF TransformIR, Parse, Lower
  <2>2. CASE data' = data BY <1>2, <1>4, <2>2 DEF KindInv
  <2>3. CASE TransformIR /\ data'.kind = Yields[phase] /\ data.kind = Accepts[phase]
    <3>1. phase \in {1, 2, 3, 4}
      BY <1>4, <1>5, <2>1, <2>3 DEF Normalize
    <3> QED BY <1>2, <1>5, <2>3, <3>1 DEF KindInv, Normalize
  <2> QED BY <1>7, <2>2, <2>3
<1>9. UsersInv'
  <2>1. SUFFICES ASSUME NEW p \in Users, NEW i, <<p, P!StagePart, i>> \in P!Calls
                 PROVE  outcome'[<<p, P!StagePart, i>>] # "value"
    BY DEF UsersInv
  <2>2. outcome[<<p, P!StagePart, i>>] # "value"
    BY <1>3, <2>1 DEF IInv, UsersInv
  <2>3. CASE <<p, P!StagePart, i>> = <<phase, P!StagePart, pos>>
    <3>1. RejectInput BY <1>6, <2>3
    <3>2. outcome' = [outcome EXCEPT ![<<phase, P!StagePart, pos>>] = "error"]
      BY <1>2, <3>1 DEF RejectInput, P!FinishStage, P!Record, P!Here, P!Part
    <3> QED BY <2>1, <2>3, <3>2 DEF IInv
  <2>4. CASE <<p, P!StagePart, i>> # <<phase, P!StagePart, pos>>
    BY <1>2, <2>1, <2>2, <2>4 DEF IInv
  <2> QED BY <2>3, <2>4
<1> QED BY <1>8, <1>9

\* The hook fills the map as soon as it sees a semantic graph.
LEMMA BridgeInv ==
  ASSUME IInv, BridgeObjects, P!Calls' = P!Calls
  PROVE  KindInv' /\ UsersInv'
<1>1. /\ UNCHANGED <<args, data>>
      /\ objects' = (objects \/ data.kind = "semantic")
      /\ P!RunHook("value")
  BY DEF BridgeObjects
<1>2. SUFFICES ASSUME args.command = "build", ~ objects, data.kind # "semantic"
               PROVE  KindInv' /\ UsersInv'
  BY <1>1 DEF KindInv, UsersInv
<1>3. KindInv' BY <1>1, <1>2 DEF IInv, KindInv
<1>4. UsersInv'
  <2>1. \E h : /\ h[2] # P!StagePart
               /\ outcome' = [outcome EXCEPT ![h] = "value"]
    <3>1. outcome' = [outcome EXCEPT ![P!Here] = "value"] /\ pc \in {"before", "after"}
      BY <1>1 DEF P!RunHook, P!Record
    <3>2. P!Here[2] # P!StagePart
      BY <3>1 DEF P!Here, P!Part, P!BeforePart, P!AfterPart, P!StagePart
    <3> QED BY <3>1, <3>2
  <2>2. \A p \in Users : \A i : <<p, P!StagePart, i>> \in P!Calls =>
          outcome'[<<p, P!StagePart, i>>] = outcome[<<p, P!StagePart, i>>]
    BY <2>1 DEF IInv
  <2> QED BY <1>2, <2>2 DEF IInv, UsersInv
<1> QED BY <1>3, <1>4

\* The phase does not end before its hook was called.
LEMMA WalkInv ==
  ASSUME IInv, Walk, P!Calls' = P!Calls
  PROVE  KindInv' /\ UsersInv'
<1>1. UNCHANGED <<args, data, objects, outcome>>
  BY DEF Walk, own, P!OrderStages, P!StartStage, P!FinishStages, P!FinishPhase
<1>2. UsersInv' BY <1>1 DEF IInv, UsersInv
<1>3. KindInv'
  <2>1. CASE P!OrderStages \/ P!StartStage \/ P!FinishStages
    <3>1. phase' = phase /\ (pc' = "after" => pos' = 1)
      BY <2>1 DEF P!OrderStages, P!StartStage, P!FinishStages, P!Return
    <3> QED BY <1>1, <3>1 DEF IInv, KindInv
  <2>2. CASE P!FinishPhase
    <3>1. SUFFICES ASSUME args.command = "build", ~ objects
                   PROVE  data.kind \in {"paths", "tree"}
      BY <1>1 DEF KindInv
    <3>2. ASSUME phase = Normalize PROVE pos # 1
      <4>1. Len(plan[phase].after) = 1
        BY <3>1, <3>2, NormalizeHook DEF IInv, Wiring
      <4> QED BY <2>2, <4>1 DEF P!FinishPhase
    <3> QED BY <2>2, <3>1, <3>2 DEF IInv, KindInv, P!FinishPhase
  <2> QED BY <2>1, <2>2 DEF Walk
<1> QED BY <1>2, <1>3

LEMMA NextInv == IInv /\ [Next]_vars => IInv'
<1> SUFFICES ASSUME IInv, [Next]_vars PROVE IInv'
  OBVIOUS
<1>1. args' = args
  BY DEF Next, Advance, Walk, RejectInput, TransformIR, RenderUnits, WriteFiles, WriteReports,
         BridgeObjects, ReturnToMain, Interrupt, vars, own
<1>2. /\ plan' = Wiring(args') /\ P!Calls' = P!Calls
      /\ phase' \in Nat /\ pos' \in Nat \ {0}
      /\ DOMAIN outcome' = P!Calls'
  BY <1>1, StepIsAStep, PipelineInv
<1>3. KindInv' /\ UsersInv'
  <2>1. CASE RejectInput \/ TransformIR \/ RenderUnits \/ WriteFiles \/ WriteReports
    BY <1>2, <2>1, StageInv
  <2>2. CASE BridgeObjects BY <1>2, <2>2, BridgeInv
  <2>3. CASE Walk BY <1>2, <2>3, WalkInv
  <2>4. CASE ReturnToMain \/ Interrupt \/ UNCHANGED vars
    <3>1. UNCHANGED <<args, data, objects, outcome, phase, pc, pos>>
      BY <2>4 DEF ReturnToMain, Interrupt, P!Cancel, vars, own, pipeline
    <3> QED BY <1>2, <3>1 DEF IInv, KindInv, UsersInv
  <2> QED BY <2>1, <2>2, <2>3, <2>4 DEF Next, Advance
<1> QED BY <1>1, <1>2, <1>3 DEF IInv

(* No stage that uses the map of objects yields anything before the hook   *)
(* has filled it.                                                          *)
THEOREM MapIsFilledBeforeUse == Spec => []LateBinding
<1>1. IInv => LateBinding
  <2> SUFFICES ASSUME IInv, NEW p \in Users, NEW i \in DOMAIN plan[p].stages, Yielded(p, i)
               PROVE  objects
    BY DEF LateBinding, Users
  <2>1. CASE args.command = "build"
    BY <2>1 DEF IInv, UsersInv, Yielded
  <2>2. CASE args.command # "build"
    <3>1. plan[p].stages = <<>> BY <2>2, ValidateHasNoUsers DEF IInv, Wiring
    <3> QED BY <3>1
  <2> QED BY <2>1, <2>2
<1>2. Spec => []IInv BY InitInv, NextInv, PTL DEF Spec
<1> QED BY <1>1, <1>2, PTL

-----------------------------------------------------------------------------
(***************************************************************************)
(* What the orchestrator guarantees                                        *)
(*                                                                         *)
(* The theorems of PipelineProofs, for the registries of the command line. *)
(***************************************************************************)

PP == INSTANCE PipelineProofs
        WITH NPhases   <- 10,
             Stages    <- ToSet(StageOf) \cup Targets,
             Hooks     <- {"normalize-objects-bridge"},
             NoHandler <- {},
             Plans     <- {Wiring(inv) : inv \in Invocations}

\* The registry lists exactly the renderers of the targets.
LEMMA Renderers ==
  ASSUME NEW inv
  PROVE  /\ RenderersOf(inv) \in Seq(Targets)
         /\ \A t \in TargetsOf(inv) : t \in Targets =>
              \E i \in DOMAIN RenderersOf(inv) : RenderersOf(inv)[i] = t
         /\ \A i \in DOMAIN RenderersOf(inv) : RenderersOf(inv)[i] \in TargetsOf(inv)
<1> DEFINE only(t) == IF t \in TargetsOf(inv) THEN <<t>> ELSE <<>>
           lists(s, T) == /\ s \in Seq(Targets)
                          /\ \A t \in TargetsOf(inv) \cap T : \E i \in DOMAIN s : s[i] = t
                          /\ \A i \in DOMAIN s : s[i] \in TargetsOf(inv)
<1>1. ASSUME NEW s, NEW T, lists(s, T), NEW t \in Targets
      PROVE  lists(s \o only(t), T \cup {t})
  <2>1. CASE t \notin TargetsOf(inv)
    <3>1. s \o only(t) = s BY <1>1, <2>1
    <3> QED BY <1>1, <2>1, <3>1
  <2>2. CASE t \in TargetsOf(inv)
    <3>1. s \o only(t) = s \o <<t>> BY <2>2
    <3> DEFINE r == s \o <<t>>
    <3>2. /\ r \in Seq(Targets) /\ Len(r) = Len(s) + 1 /\ r[Len(s) + 1] = t
          /\ \A i \in 1 .. Len(s) : r[i] = s[i]
          /\ DOMAIN r = 1 .. Len(s) + 1 /\ DOMAIN s = 1 .. Len(s) /\ Len(s) \in Nat
      BY <1>1
    <3> HIDE DEF r
    <3>3. \A u \in TargetsOf(inv) \cap (T \cup {t}) : \E i \in DOMAIN r : r[i] = u
      <4> TAKE u \in TargetsOf(inv) \cap (T \cup {t})
      <4>1. CASE u = t BY <3>2, <4>1
      <4>2. CASE u \in T
        <5>1. PICK i \in DOMAIN s : s[i] = u BY <1>1, <4>2
        <5> QED BY <3>2, <5>1
      <4> QED BY <4>1, <4>2
    <3>4. \A i \in DOMAIN r : r[i] \in TargetsOf(inv)
      BY <1>1, <2>2, <3>2
    <3>5. lists(r, T \cup {t}) BY <3>2, <3>3, <3>4
    <3> QED BY <3>1, <3>5 DEF r
  <2> QED BY <2>1, <2>2
<1>2. lists(<<>>, {}) OBVIOUS
<1> HIDE DEF lists
<1>3. lists(<<>> \o only("claude"), {} \cup {"claude"})
  BY <1>1, <1>2 DEF Targets
<1>4. only("claude") = <<>> \o only("claude") OBVIOUS
<1>5. lists(only("claude"), {} \cup {"claude"}) BY <1>3, <1>4, Zenon
<1>6. lists(only("claude") \o only("codex"), {} \cup {"claude"} \cup {"codex"})
  BY <1>1, <1>5 DEF Targets
<1>7. lists(only("claude") \o only("codex") \o only("copilot"),
            {} \cup {"claude"} \cup {"codex"} \cup {"copilot"})
  BY <1>1, <1>6 DEF Targets
<1>8. lists(only("claude") \o only("codex") \o only("copilot") \o only("cursor"),
            {} \cup {"claude"} \cup {"codex"} \cup {"copilot"} \cup {"cursor"})
  BY <1>1, <1>7 DEF Targets
<1>9. lists(RenderersOf(inv), Targets)
  <2>1. {} \cup {"claude"} \cup {"codex"} \cup {"copilot"} \cup {"cursor"} = Targets
    BY DEF Targets
  <2>2. RenderersOf(inv) = only("claude") \o only("codex") \o only("copilot") \o only("cursor")
    BY DEF RenderersOf
  <2> QED BY <1>8, <2>1, <2>2, Zenon
<1> QED BY <1>9 DEF lists

LEMMA TargetsAreTargets ==
  ASSUME NEW inv \in Invocations
  PROVE  TargetsOf(inv) \subseteq Targets
<1>1. inv.asked \in Seq(Targets \cup {"all"}) BY BuildAssumption DEF Invocation
<1>2. ToSet(inv.asked) \subseteq Targets \cup {"all"}
  BY <1>1 DEF ToSet
<1> QED BY <1>2 DEF TargetsOf

\* The stages of each phase.
LEMMA StagesOf ==
  ASSUME NEW inv, NEW p \in 1 .. 10
  PROVE  /\ inv.command = "build" =>
              Wiring(inv)[p].stages = IF p = Render THEN RenderersOf(inv) ELSE <<StageOf[p]>>
         /\ inv.command # "build" =>
              Wiring(inv)[p].stages =
                IF p \in {Parse, Validate, Normalize} THEN <<StageOf[p]>> ELSE <<>>
<1> DEFINE S(q) == IF q = Render THEN RenderersOf(inv) ELSE <<StageOf[q]>>
           V(q) == IF q \in {Parse, Validate, Normalize} THEN <<StageOf[q]>> ELSE <<>>
<1>1. WirePipeline(inv) =
        [q \in 1 .. 10 |->
           [NoHooks EXCEPT !.stages = S(q),
                           !.after = IF q = Normalize THEN <<"normalize-objects-bridge">> ELSE <<>>]]
  BY DEF WirePipeline
<1>2. WireValidate = [q \in 1 .. 10 |-> [NoHooks EXCEPT !.stages = V(q)]]
  BY DEF WireValidate
<1> HIDE DEF S, V
<1>3. WirePipeline(inv)[p].stages = S(p) BY <1>1 DEF NoHooks
<1>4. WireValidate[p].stages = V(p) BY <1>2 DEF NoHooks
<1> QED BY <1>3, <1>4 DEF Wiring, S, V

LEMMA WiringIsAPlan ==
  ASSUME NEW inv \in Invocations
  PROVE  Wiring(inv) \in [PP!Phase -> PP!PhasePlan]
<1> DEFINE S(q) == IF q = Render THEN RenderersOf(inv) ELSE <<StageOf[q]>>
           V(q) == IF q \in {Parse, Validate, Normalize} THEN <<StageOf[q]>> ELSE <<>>
           A(q) == IF q = Normalize THEN <<"normalize-objects-bridge">> ELSE <<>>
           St == ToSet(StageOf) \cup Targets
<1>1. WirePipeline(inv) = [q \in 1 .. 10 |-> [NoHooks EXCEPT !.stages = S(q), !.after = A(q)]]
  BY DEF WirePipeline
<1>2. WireValidate = [q \in 1 .. 10 |-> [NoHooks EXCEPT !.stages = V(q)]]
  BY DEF WireValidate
<1>3. ASSUME NEW q \in 1 .. 10 PROVE StageOf[q] \in St
  BY <1>3 DEF ToSet, StageOf
<1>4. ASSUME NEW q \in 1 .. 10 PROVE S(q) \in Seq(St) /\ V(q) \in Seq(St)
  <2>1. RenderersOf(inv) \in Seq(Targets) BY Renderers
  <2>2. RenderersOf(inv) \in Seq(St) BY <2>1
  <2>3. <<StageOf[q]>> \in Seq(St) BY <1>3
  <2>4. <<>> \in Seq(St) OBVIOUS
  <2> QED BY <2>2, <2>3, <2>4
<1>5. ASSUME NEW q \in 1 .. 10 PROVE A(q) \in Seq({"normalize-objects-bridge"})
  <2>1. <<"normalize-objects-bridge">> \in Seq({"normalize-objects-bridge"}) OBVIOUS
  <2>2. <<>> \in Seq({"normalize-objects-bridge"}) OBVIOUS
  <2> QED BY <2>1, <2>2
<1> HIDE DEF S, V, A
<1>6. \A q \in 1 .. 10 : /\ WirePipeline(inv)[q] = [ordered |-> TRUE, stages |-> S(q), before |-> <<>>, after |-> A(q)]
                        /\ WireValidate[q] = [ordered |-> TRUE, stages |-> V(q), before |-> <<>>, after |-> <<>>]
  BY <1>1, <1>2 DEF NoHooks
<1>7. \A q \in 1 .. 10 : WirePipeline(inv)[q] \in PP!PhasePlan /\ WireValidate[q] \in PP!PhasePlan
  <2> TAKE q \in 1 .. 10
  <2> HIDE DEF St
  <2>0. <<>> \in Seq({"normalize-objects-bridge"}) OBVIOUS
  <2>1. /\ S(q) \in Seq(St) /\ V(q) \in Seq(St)
        /\ A(q) \in Seq({"normalize-objects-bridge"})
        /\ <<>> \in Seq({"normalize-objects-bridge"})
    BY <1>4, <1>5, <2>0
  <2>2. /\ [ordered |-> TRUE, stages |-> S(q), before |-> <<>>, after |-> A(q)]
             \in [ordered : BOOLEAN, stages : Seq(St), before : Seq({"normalize-objects-bridge"}),
                  after : Seq({"normalize-objects-bridge"})]
        /\ [ordered |-> TRUE, stages |-> V(q), before |-> <<>>, after |-> <<>>]
             \in [ordered : BOOLEAN, stages : Seq(St), before : Seq({"normalize-objects-bridge"}),
                  after : Seq({"normalize-objects-bridge"})]
    BY <2>1
  <2> QED BY <1>6, <2>2 DEF PP!PhasePlan, St
<1>8. /\ WirePipeline(inv) \in [PP!Phase -> PP!PhasePlan]
      /\ WireValidate \in [PP!Phase -> PP!PhasePlan]
  BY <1>1, <1>2, <1>7 DEF PP!Phase
<1> QED BY <1>8 DEF Wiring

LEMMA PlansAreRegistries ==
  {Wiring(inv) : inv \in Invocations} \subseteq [PP!Phase -> PP!PhasePlan]
BY WiringIsAPlan

(* The orchestrator of Build and the one the theorems are about are the    *)
(* same formula; the prover has to be shown that, definition by definition.*)
LEMMA SameCalls ==
  /\ P!Calls = PP!Calls /\ P!Part = PP!Part /\ P!Here = PP!Here
  /\ P!Done = PP!Done /\ P!Failed = PP!Failed /\ P!Fatal = PP!Fatal
  /\ P!StageCalls = PP!StageCalls
  /\ \A a, b : P!Before(a, b) <=> PP!Before(a, b)
<1>1. P!Calls = PP!Calls /\ P!Part = PP!Part
  BY DEF P!Calls, PP!Calls, P!CallsOf, PP!CallsOf, P!Phase, PP!Phase, P!Part, PP!Part,
         P!BeforePart, PP!BeforePart, P!StagePart, PP!StagePart, P!AfterPart, PP!AfterPart
<1> QED
  BY <1>1 DEF P!Here, PP!Here, P!Done, PP!Done, P!Failed, PP!Failed, P!Fatal, PP!Fatal,
         P!StageCalls, PP!StageCalls, P!StagePart, PP!StagePart, P!Before, PP!Before

LEMMA SameSteps ==
  /\ P!Advance <=> PP!Advance
  /\ P!Cancel <=> PP!Cancel
  /\ P!Next <=> PP!Next
<1>1. /\ P!HookList = PP!HookList /\ P!Here = PP!Here
      /\ \A o : P!Record(o) <=> PP!Record(o)
      /\ \A r : P!Return(r) <=> PP!Return(r)
  BY SameCalls DEF P!HookList, PP!HookList, P!Record, PP!Record, P!Return, PP!Return
<1>3. /\ P!SkipHook <=> PP!SkipHook
      /\ P!OrderStages <=> PP!OrderStages
      /\ P!StartStage <=> PP!StartStage
      /\ P!FinishStages <=> PP!FinishStages
      /\ P!FinishPhase <=> PP!FinishPhase
      /\ P!Cancel <=> PP!Cancel
  BY <1>1 DEF P!SkipHook, PP!SkipHook, P!OrderStages, PP!OrderStages, P!StartStage,
         PP!StartStage, P!FinishStages, PP!FinishStages, P!FinishPhase, PP!FinishPhase,
         P!Cancel, PP!Cancel
<1>4. P!Outcomes = PP!Outcomes
  BY DEF P!Outcomes, PP!Outcomes
<1>5. (\E o \in P!Outcomes : P!RunHook(o) \/ P!FinishStage(o))
        <=> (\E o \in PP!Outcomes : PP!RunHook(o) \/ PP!FinishStage(o))
  <2>1. ASSUME NEW o
        PROVE  (P!RunHook(o) \/ P!FinishStage(o)) <=> (PP!RunHook(o) \/ PP!FinishStage(o))
    BY <1>1 DEF P!RunHook, PP!RunHook, P!FinishStage, PP!FinishStage
  <2> QED BY <1>4, <2>1
<1>6. P!Advance <=> PP!Advance
  BY <1>3, <1>5, Zenon DEF P!Advance, PP!Advance
<1> QED
  BY <1>3, <1>6, Zenon DEF P!Next, PP!Next

LEMMA SameOrchestrator == P!Spec => PP!Spec
<1>1. P!Init <=> PP!Init
  BY SameCalls DEF P!Init, PP!Init, P!Root, PP!Root
<1>2. P!vars = PP!vars
  BY DEF P!vars, PP!vars
<1>3. [P!Next]_(P!vars) => [PP!Next]_(PP!vars)
  <2>1. CASE P!Next BY <2>1, SameSteps
  <2>2. CASE UNCHANGED P!vars
    BY <2>2 DEF P!vars, PP!vars
  <2> QED BY <2>1, <2>2
<1> QED BY <1>1, <1>3, PTL DEF P!Spec, PP!Spec

\* What the theorems of PipelineProofs say of the commands.
OrchestratorInv == P!TypeOK /\ P!PositionInv /\ P!ResultIsExplained

LEMMA Orchestrated == Spec => []OrchestratorInv
<1>1. /\ 10 \in Nat \ {0}
      /\ {} \subseteq {"normalize-objects-bridge"}
      /\ {Wiring(inv) : inv \in Invocations} \subseteq [PP!Phase -> PP!PhasePlan]
  BY PlansAreRegistries
<1>2. PP!Spec => []PP!TypeOK
  BY <1>1, PP!TypeCorrect
<1>3. PP!Spec => []PP!PositionInv
  BY <1>1, PP!CallsAreMadeInOrder
<1>4. PP!Spec => []PP!ResultIsExplained
  BY <1>1, PP!ResultsAreExplained
<1>5. PP!TypeOK => P!TypeOK
  BY SameCalls DEF P!TypeOK, PP!TypeOK, P!Phase, PP!Phase, P!Root, PP!Root, P!Outcomes,
         PP!Outcomes
<1>6. PP!PositionInv => P!PositionInv
  BY SameCalls DEF P!PositionInv, PP!PositionInv
<1>7. PP!ResultIsExplained => P!ResultIsExplained
  BY SameCalls DEF P!ResultIsExplained, PP!ResultIsExplained, P!Phase, PP!Phase
<1> QED
  BY CommandsRunThePipeline, SameOrchestrator, <1>2, <1>3, <1>4, <1>5, <1>6, <1>7, PTL
      DEF OrchestratorInv

\* What they are refined to is the same, too.
LEMMA SameSchedule ==
  /\ PP!S!Init <=> P!S!Init
  /\ PP!S!Next <=> P!S!Next
  /\ PP!S!vars = P!S!vars /\ PP!S!vars' = P!S!vars'
<1>1. P!Status = PP!Status /\ P!Root = PP!Root
  BY DEF P!Status, PP!Status, P!Root, PP!Root
<1>2. /\ P!Calls' = PP!Calls' /\ P!Done' = PP!Done' /\ P!Failed' = PP!Failed'
      /\ P!Fatal' = PP!Fatal' /\ P!Status' = PP!Status'
  <2>1. P!Calls' = PP!Calls'
    BY DEF P!Calls, PP!Calls, P!CallsOf, PP!CallsOf, P!Phase, PP!Phase, P!BeforePart,
           PP!BeforePart, P!StagePart, PP!StagePart, P!AfterPart, PP!AfterPart
  <2>2. P!Done' = PP!Done' /\ P!Failed' = PP!Failed'
    BY <2>1 DEF P!Done, PP!Done, P!Failed, PP!Failed
  <2>3. P!Fatal' = PP!Fatal'
    BY <2>1 DEF P!Fatal, PP!Fatal, P!StagePart, PP!StagePart
  <2>4. P!Status' = PP!Status'
    BY DEF P!Status, PP!Status
  <2> QED BY <2>1, <2>2, <2>3, <2>4
<1>3. \A c : PP!S!Due(c) <=> P!S!Due(c)
  BY <1>1, SameCalls DEF PP!S!Due, P!S!Due, PP!S!Before, P!S!Before
<1>4. PP!S!Init <=> P!S!Init
  BY <1>1, SameCalls DEF PP!S!Init, P!S!Init, P!S!Call, PP!S!Call
<1>5. \A c : (PP!S!Return(c) <=> P!S!Return(c)) /\ (PP!S!Fail(c) <=> P!S!Fail(c))
  BY <1>1, <1>3, <1>2, SameCalls DEF PP!S!Return, P!S!Return, PP!S!Fail, P!S!Fail
<1>6. (PP!S!Abandon <=> P!S!Abandon) /\ (PP!S!Succeed <=> P!S!Succeed)
  BY <1>1, <1>2, SameCalls DEF PP!S!Abandon, P!S!Abandon, PP!S!Succeed, P!S!Succeed
<1>7. PP!S!Next <=> P!S!Next
  BY <1>5, <1>6, SameCalls DEF PP!S!Next, P!S!Next
<1>8. PP!S!vars = P!S!vars /\ PP!S!vars' = P!S!vars'
  BY <1>1, <1>2, SameCalls DEF PP!S!vars, P!S!vars
<1> QED BY <1>4, <1>7, <1>8

(* Each command keeps to the schedule: its calls are made in one order,    *)
(* each at most once, the next sees the value of the last one that had     *)
(* one, and it succeeds only when all were made (Execute in pipeline.go).  *)
THEOREM CommandsKeepTheSchedule == Spec => P!ImplementsSchedule
<1>1. /\ 10 \in Nat \ {0}
      /\ {} \subseteq {"normalize-objects-bridge"}
      /\ {Wiring(inv) : inv \in Invocations} \subseteq [PP!Phase -> PP!PhasePlan]
  BY PlansAreRegistries
<1>2. PP!Spec => PP!ImplementsSchedule
  BY <1>1, PP!PipelineImplementsSchedule
<1>3. [PP!S!Next]_(PP!S!vars) => [P!S!Next]_(P!S!vars)
  BY SameSchedule
<1> QED
  BY CommandsRunThePipeline, SameOrchestrator, SameSchedule, <1>2, <1>3, PTL
      DEF P!ImplementsSchedule, PP!ImplementsSchedule, P!S!Spec, PP!S!Spec

(* The errors of a command say what went wrong: each stage that failed has *)
(* its diagnostic, in the order of the run.                                *)
THEOREM CommandsReportFailures == Spec => []P!EveryFailureReported
<1>1. /\ 10 \in Nat \ {0}
      /\ {} \subseteq {"normalize-objects-bridge"}
      /\ {Wiring(inv) : inv \in Invocations} \subseteq [PP!Phase -> PP!PhasePlan]
  BY PlansAreRegistries
<1>2. PP!Spec => []PP!EveryFailureReported
  BY <1>1, PP!FailuresAreReported
<1>3. PP!EveryFailureReported => P!EveryFailureReported
  BY SameCalls DEF PP!EveryFailureReported, P!EveryFailureReported
<1> QED BY CommandsRunThePipeline, SameOrchestrator, <1>2, <1>3, PTL

-----------------------------------------------------------------------------
(***************************************************************************)
(* What is written, and what a success means                               *)
(***************************************************************************)

\* The stages of this program return a value or an error.
OutcomesInv == \A c \in P!Calls : outcome[c] # "nil"

OwnTypes ==
  /\ args \in Invocations
  /\ data \in [kind : {"paths"} \cup ToSet(Yields), units : SUBSET TargetsOf(args)]
  /\ objects \in BOOLEAN
  /\ files \in [Targets -> {"none", "part", "all"}]
  /\ reports \subseteq {"json", "md"}
  /\ code \in {NotYet, 0, 1, 2}
  /\ exit \in {NotYet, 0, 1}

AfterLowering == {"emission", "materialized", "report"}

\* The type of the IR tells which stages have made it.
ChainInv ==
  /\ data.kind # "paths" => Yielded(Parse, 1)
  /\ data.kind \notin {"paths", "tree"} => Yielded(Normalize, 1)
  /\ data.kind \notin {"paths", "tree", "semantic"} => Yielded(Plan, 1)
  /\ data.kind \in {"capability", "lowered"} \cup AfterLowering => Yielded(Capability, 1)
  /\ data.kind \in {"lowered"} \cup AfterLowering => Yielded(Lower, 1)
  /\ data.kind \in {"plan", "capability", "lowered"} => data.units = TargetsOf(args)

\* At most one renderer yields anything, and the units after it are its own.
RenderInv ==
  /\ data.kind \in AfterLowering =>
       \E i \in DOMAIN plan[Render].stages :
         data.units = {plan[Render].stages[i]} /\ Yielded(Render, i)
  /\ \A i \in DOMAIN plan[Render].stages :
       Yielded(Render, i) =>
         data.kind \in AfterLowering /\ data.units = {plan[Render].stages[i]}

\* What the last two stages leave when they fail fast and succeed.
WriteInv ==
  /\ Yielded(Materialize, 1) =>
       /\ data.kind \in {"materialized", "report"}
       /\ failFast /\ ~ args.dryRun => \A t \in data.units : files[t] = "all"
  /\ Yielded(Report, 1) =>
       /\ data.kind = "report"
       /\ failFast => reports = {"json", "md"}

ExitInv ==
  /\ exit # NotYet => pc = "end"
  /\ exit = 0 => result = "ok"

Justified(t) ==
  /\ args.command = "build" /\ ~ args.dryRun /\ t \in TargetsOf(args)
  /\ \A p \in {Parse, Normalize, Plan, Capability, Lower} : Yielded(p, 1)
  /\ Rendered(t)
  /\ failFast => Yielded(Validate, 1) /\ Yielded(Resolve, 1)

FilesInv == \A t \in Targets : files[t] # "none" => Justified(t)

OutputInv ==
  /\ OutcomesInv /\ OwnTypes
  /\ ChainInv /\ RenderInv /\ WriteInv
  /\ ExitInv
  /\ FilesInv

\* Every type an IR can have, by its place in Accepts and Yields.
LEMMA Kinds ==
  /\ Accepts[1] = "paths" /\ Accepts[2] = "tree" /\ Accepts[3] = "tree"
  /\ Accepts[4] = "tree" /\ Accepts[5] = "semantic" /\ Accepts[6] = "plan"
  /\ Accepts[7] = "capability" /\ Accepts[8] = "lowered" /\ Accepts[9] = "emission"
  /\ Accepts[10] = "materialized"
  /\ Yields[1] = "tree" /\ Yields[2] = "tree" /\ Yields[3] = "tree"
  /\ Yields[4] = "semantic" /\ Yields[5] = "plan" /\ Yields[6] = "capability"
  /\ Yields[7] = "lowered" /\ Yields[8] = "emission" /\ Yields[9] = "materialized"
  /\ Yields[10] = "report"
  /\ \A p \in 1 .. 10 : Yields[p] \in ToSet(Yields)
<1>1. \A p \in 1 .. 10 : Yields[p] \in ToSet(Yields)
  <2>1. DOMAIN Yields = 1 .. 10 BY DEF Yields
  <2> QED BY <2>1 DEF ToSet
<1> QED BY <1>1 DEF Accepts, Yields

LEMMA AtStage ==
  ASSUME IInv, OrchestratorInv, pc = "stage"
  PROVE  /\ phase \in 1 .. 10 /\ pos \in DOMAIN plan[phase].stages
         /\ phase # Render => pos = 1
         /\ phase \notin {Parse, Validate, Normalize} => args.command = "build"
<1>1. /\ phase \in 1 .. 10 /\ pos \in Nat \ {0} /\ pos <= Len(plan[phase].stages)
      /\ plan = Wiring(args) /\ args.command \in {"build", "validate"}
  BY DEF OrchestratorInv, P!TypeOK, P!Phase, IInv
<1>2. /\ args.command = "build" =>
           plan[phase].stages = IF phase = Render THEN RenderersOf(args) ELSE <<StageOf[phase]>>
      /\ args.command # "build" =>
           plan[phase].stages =
             IF phase \in {Parse, Validate, Normalize} THEN <<StageOf[phase]>> ELSE <<>>
  BY <1>1, StagesOf
<1>3. RenderersOf(args) \in Seq(Targets) BY Renderers
<1>4. phase # Render => plan[phase].stages \in {<<>>, <<StageOf[phase]>>}
  BY <1>1, <1>2
<1>5. pos \in DOMAIN plan[phase].stages
  BY <1>1, <1>2, <1>3
<1>6. phase # Render => pos = 1
  <2>1. Len(<<>>) = 0 /\ Len(<<StageOf[phase]>>) = 1 OBVIOUS
  <2>2. phase # Render => Len(plan[phase].stages) \in {0, 1}
    BY <1>4, <2>1, Zenon
  <2> QED BY <1>1, <2>2
<1>7. phase \notin {Parse, Validate, Normalize} => args.command = "build"
  BY <1>1, <1>2
<1> QED BY <1>1, <1>5, <1>6, <1>7

\* The call of a stage: it was not made before, and no other is touched.
LEMMA StageIsCalled ==
  ASSUME IInv, OrchestratorInv, OutcomesInv,
         NEW o \in {"value", "error"}, P!FinishStage(o)
  PROVE  /\ plan' = plan /\ failFast' = failFast
         /\ pc = "stage" /\ phase' = phase
         /\ ~ Yielded(phase, pos)
         /\ \A p, i : (Yielded(p, i))' <=> Yielded(p, i) \/ (o = "value" /\ p = phase /\ i = pos)
         /\ OutcomesInv'
<1> DEFINE here == <<phase, P!StagePart, pos>>
<1>1. /\ plan' = plan /\ failFast' = failFast /\ pc = "stage" /\ phase' = phase
      /\ outcome' = [outcome EXCEPT ![here] = o]
  BY DEF P!FinishStage, P!Record, P!Here, P!Part
<1>2. phase \in 1 .. 10 /\ pos \in DOMAIN plan[phase].stages
  BY <1>1, AtStage
<1>3. here \in P!CallsOf(phase) BY <1>2 DEF P!CallsOf
<1>4. here \in P!Calls BY <1>2, <1>3 DEF P!Calls, P!Phase
<1>5. P!Calls' = P!Calls BY <1>1 DEF P!Calls, P!CallsOf, P!Phase
<1>6. outcome[here] = "none"
  <2>1. P!Here = here BY <1>1 DEF P!Here, P!Part
  <2>2. ~ P!Before(here, here)
    <3>1. phase \in Int /\ pos \in Int BY DEF IInv
    <3> QED BY <3>1 DEF P!Before, P!StagePart
  <2>3. here \notin P!Done
    BY <1>1, <1>4, <2>1, <2>2 DEF OrchestratorInv, P!PositionInv
  <2> QED BY <1>4, <2>3 DEF P!Done
<1>7. DOMAIN outcome = P!Calls BY DEF IInv
<1>8. \A c \in P!Calls : outcome'[c] = IF c = here THEN o ELSE outcome[c]
  BY <1>1, <1>7
<1>9. ~ Yielded(phase, pos) BY <1>6 DEF Yielded
<1>10. \A p, i : (Yielded(p, i))' <=> Yielded(p, i) \/ (o = "value" /\ p = phase /\ i = pos)
  <2> TAKE p, i
  <2>1. <<p, P!StagePart, i>> = here <=> p = phase /\ i = pos OBVIOUS
  <2> HIDE DEF here
  <2>2. (Yielded(p, i))' <=> <<p, P!StagePart, i>> \in P!Calls /\ outcome'[<<p, P!StagePart, i>>] = "value"
    BY <1>5 DEF Yielded
  <2> QED BY <1>4, <1>6, <1>8, <2>1, <2>2 DEF Yielded
<1>11. OutcomesInv' BY <1>5, <1>8 DEF OutcomesInv
<1> QED BY <1>1, <1>9, <1>10, <1>11

\* The steps between the stages' calls.
Between == Walk \/ BridgeObjects \/ ReturnToMain \/ Interrupt \/ UNCHANGED vars

LEMMA NoStageIsCalled ==
  ASSUME IInv, OrchestratorInv, OutcomesInv, Between
  PROVE  /\ UNCHANGED <<plan, failFast, args, data, files, reports>>
         /\ \A p, i : (Yielded(p, i))' <=> Yielded(p, i)
         /\ OutcomesInv'
<1>1. UNCHANGED <<plan, failFast, args, data, files, reports>>
  BY DEF Between, Walk, BridgeObjects, ReturnToMain, Interrupt, vars, pipeline, own,
         P!OrderStages, P!StartStage, P!FinishStages, P!FinishPhase, P!RunHook, P!Cancel
<1>2. P!Calls' = P!Calls BY <1>1 DEF P!Calls, P!CallsOf, P!Phase
<1>3. \/ outcome' = outcome
      \/ \E h : /\ h[2] # P!StagePart
               /\ outcome' = [outcome EXCEPT ![h] = "value"]
  <2>1. CASE BridgeObjects
    <3>1. outcome' = [outcome EXCEPT ![P!Here] = "value"] /\ pc \in {"before", "after"}
      BY <2>1 DEF BridgeObjects, P!RunHook, P!Record
    <3>2. P!Here[2] # P!StagePart
      BY <3>1 DEF P!Here, P!Part, P!BeforePart, P!AfterPart, P!StagePart
    <3> QED BY <3>1, <3>2
  <2>2. CASE Walk \/ ReturnToMain \/ Interrupt \/ UNCHANGED vars
    BY <2>2 DEF Walk, ReturnToMain, Interrupt, vars, pipeline, own,
         P!OrderStages, P!StartStage, P!FinishStages, P!FinishPhase, P!Cancel
  <2> QED BY <2>1, <2>2 DEF Between
<1>4. DOMAIN outcome = P!Calls BY DEF IInv
<1>5. \A p, i : <<p, P!StagePart, i>> \in P!Calls =>
        outcome'[<<p, P!StagePart, i>>] = outcome[<<p, P!StagePart, i>>]
  BY <1>3, <1>4
<1>6. \A p, i : (Yielded(p, i))' <=> Yielded(p, i)
  BY <1>2, <1>5 DEF Yielded
<1>7. OutcomesInv' BY <1>2, <1>3, <1>4 DEF OutcomesInv
<1> QED BY <1>1, <1>6, <1>7

-----------------------------------------------------------------------------
(***************************************************************************)
(* Each step preserves the invariant                                       *)
(***************************************************************************)

\* What was made stays made, so what was justified stays justified.
LEMMA StaysJustified ==
  ASSUME UNCHANGED <<plan, failFast, args>>,
         \A p, i : Yielded(p, i) => (Yielded(p, i))'
  PROVE  \A t : Justified(t) => (Justified(t))'
<1>1. \A t : Rendered(t) => (Rendered(t))' BY DEF Rendered
<1> QED BY <1>1 DEF Justified

\* Nothing the invariant speaks of changes.
LEMMA QuietStep ==
  ASSUME OutputInv, UNCHANGED <<plan, failFast, args, data, files, reports>>,
         \A p, i : (Yielded(p, i))' <=> Yielded(p, i)
  PROVE  ChainInv' /\ RenderInv' /\ WriteInv' /\ FilesInv'
<1>1. ChainInv' BY DEF OutputInv, ChainInv
<1>2. RenderInv' BY DEF OutputInv, RenderInv
<1>3. WriteInv' BY DEF OutputInv, WriteInv
<1>4. FilesInv' BY StaysJustified DEF OutputInv, FilesInv
<1> QED BY <1>1, <1>2, <1>3, <1>4

LEMMA InitOutput == Init => OutputInv
<1> SUFFICES ASSUME Init PROVE OutputInv
  OBVIOUS
<1>1. /\ outcome = [c \in P!Calls |-> "none"] /\ pc = "before"
      /\ data = [kind |-> "paths", units |-> {}]
      /\ files = [t \in Targets |-> "none"]
      /\ exit = NotYet /\ code = NotYet /\ reports = {} /\ objects = FALSE
      /\ args \in Invocations
  BY DEF Init, P!Init
<1>2. \A p, i : ~ Yielded(p, i) BY <1>1 DEF Yielded
<1>3. OutcomesInv BY <1>1 DEF OutcomesInv
<1>4. OwnTypes
  <2>1. data \in [kind : {"paths"} \cup ToSet(Yields), units : SUBSET TargetsOf(args)]
    BY <1>1
  <2>2. files \in [Targets -> {"none", "part", "all"}] BY <1>1
  <2> QED BY <1>1, <2>1, <2>2 DEF OwnTypes
<1>5. ChainInv /\ RenderInv /\ WriteInv
  BY <1>1, <1>2 DEF ChainInv, RenderInv, WriteInv, AfterLowering
<1>6. ExitInv BY <1>1 DEF ExitInv, NotYet
<1>7. FilesInv BY <1>1 DEF FilesInv
<1> QED BY <1>3, <1>4, <1>5, <1>6, <1>7 DEF OutputInv

\* No step but the last looks at exit, which is set when the pipeline has ended.
LEMMA ExitStep ==
  ASSUME OutputInv, [Next]_vars
  PROVE  ExitInv'
<1>1. CASE ReturnToMain
  <2>1. /\ pc = "end" /\ UNCHANGED <<pc, result>>
        /\ code' = (IF result = "ok" THEN 0 ELSE IF cancelled THEN 2 ELSE 1)
        /\ exit' = (IF code' = 0 THEN 0 ELSE 1)
    BY <1>1 DEF ReturnToMain, pipeline
  <2>2. exit' = 0 => result = "ok" BY <2>1
  <2> QED BY <2>1, <2>2 DEF ExitInv
<1>2. CASE Interrupt \/ UNCHANGED vars
  BY <1>2 DEF OutputInv, ExitInv, Interrupt, P!Cancel, own, vars, pipeline
<1>3. CASE Walk \/ RejectInput \/ TransformIR \/ RenderUnits \/ WriteFiles \/ WriteReports
             \/ BridgeObjects
  <2>1. exit' = exit /\ pc # "end"
    BY <1>3 DEF Walk, RejectInput, TransformIR, RenderUnits, WriteFiles, WriteReports,
                BridgeObjects, own, P!OrderStages, P!StartStage, P!FinishStages, P!FinishPhase,
                P!FinishStage, P!RunHook
  <2>2. exit = NotYet BY <2>1 DEF OutputInv, ExitInv
  <2> QED BY <2>1, <2>2 DEF ExitInv, NotYet
<1> QED BY <1>1, <1>2, <1>3 DEF Next, Advance

LEMMA RejectStep ==
  ASSUME IInv, OrchestratorInv, OutputInv, RejectInput
  PROVE  OutcomesInv' /\ ChainInv' /\ RenderInv' /\ WriteInv' /\ FilesInv'
<1>1. P!FinishStage("error") /\ UNCHANGED <<args, data, files, reports>>
  BY DEF RejectInput, own
<1>2. OutcomesInv BY DEF OutputInv
<1>3. /\ plan' = plan /\ failFast' = failFast /\ OutcomesInv'
      /\ \A p, i : (Yielded(p, i))' <=> Yielded(p, i)
  BY <1>1, <1>2, StageIsCalled
<1>4. ChainInv' /\ RenderInv' /\ WriteInv' /\ FilesInv'
  BY <1>1, <1>3, QuietStep
<1> QED BY <1>3, <1>4

LEMMA TransformStep ==
  ASSUME IInv, OrchestratorInv, OutputInv, TransformIR
  PROVE  OutcomesInv' /\ ChainInv' /\ RenderInv' /\ WriteInv' /\ FilesInv'
<1>1. /\ UNCHANGED <<args, files, reports>> /\ phase \in Parse .. Lower /\ pc = "stage"
      /\ data.kind = Accepts[phase]
      /\ \/ P!FinishStage("error") /\ UNCHANGED data
         \/ /\ P!FinishStage("value")
            /\ data' = [kind  |-> Yields[phase],
                        units |-> IF phase = Plan THEN TargetsOf(args) ELSE data.units]
  BY DEF TransformIR
<1>2. OutcomesInv BY DEF OutputInv
<1>3. CASE P!FinishStage("error") /\ UNCHANGED data
  <2>1. /\ plan' = plan /\ failFast' = failFast /\ OutcomesInv'
        /\ \A p, i : (Yielded(p, i))' <=> Yielded(p, i)
    BY <1>2, <1>3, StageIsCalled
  <2>2. ChainInv' /\ RenderInv' /\ WriteInv' /\ FilesInv'
    BY <1>1, <1>3, <2>1, QuietStep
  <2> QED BY <2>1, <2>2
<1>4. CASE /\ P!FinishStage("value")
           /\ data' = [kind  |-> Yields[phase],
                       units |-> IF phase = Plan THEN TargetsOf(args) ELSE data.units]
  <2>1. /\ plan' = plan /\ failFast' = failFast /\ OutcomesInv'
        /\ \A p, i : (Yielded(p, i))' <=> Yielded(p, i) \/ (p = phase /\ i = pos)
    BY <1>2, <1>4, StageIsCalled
  <2>2. phase \in 1 .. 7 /\ pos = 1
    BY <1>1, AtStage DEF Parse, Lower, Render
  <2>3. /\ data'.kind = Yields[phase]
        /\ data'.units = IF phase = Plan THEN TargetsOf(args) ELSE data.units
    BY <1>4
  <2>4. ChainInv'
    <3>1. /\ data.kind # "paths" => Yielded(1, 1)
          /\ data.kind \notin {"paths", "tree"} => Yielded(4, 1)
          /\ data.kind \notin {"paths", "tree", "semantic"} => Yielded(5, 1)
          /\ data.kind \in {"capability", "lowered"} => Yielded(6, 1)
          /\ data.kind = "lowered" => Yielded(7, 1)
          /\ data.kind \in {"plan", "capability", "lowered"} => data.units = TargetsOf(args)
      BY DEF OutputInv, ChainInv, Parse, Normalize, Plan, Capability, Lower
    <3>2. /\ data'.kind # "paths" => (Yielded(1, 1))'
          /\ data'.kind \notin {"paths", "tree"} => (Yielded(4, 1))'
          /\ data'.kind \notin {"paths", "tree", "semantic"} => (Yielded(5, 1))'
          /\ data'.kind \in {"capability", "lowered"} \cup AfterLowering => (Yielded(6, 1))'
          /\ data'.kind \in {"lowered"} \cup AfterLowering => (Yielded(7, 1))'
          /\ data'.kind \in {"plan", "capability", "lowered"} => data'.units = TargetsOf(args)
      <4>1. CASE phase \in {1, 2, 3}
        BY <1>1, <2>1, <2>2, <2>3, <3>1, <4>1, Kinds DEF AfterLowering, Plan
      <4>2. CASE phase = 4
        BY <1>1, <2>1, <2>2, <2>3, <3>1, <4>2, Kinds DEF AfterLowering, Plan
      <4>3. CASE phase = 5
        BY <1>1, <2>1, <2>2, <2>3, <3>1, <4>3, Kinds DEF AfterLowering, Plan
      <4>4. CASE phase = 6
        BY <1>1, <2>1, <2>2, <2>3, <3>1, <4>4, Kinds DEF AfterLowering, Plan
      <4>5. CASE phase = 7
        BY <1>1, <2>1, <2>2, <2>3, <3>1, <4>5, Kinds DEF AfterLowering, Plan
      <4> QED BY <2>2, <4>1, <4>2, <4>3, <4>4, <4>5
    <3> QED BY <1>1, <3>2 DEF ChainInv, Parse, Normalize, Plan, Capability, Lower
  <2>5. /\ data.kind \notin AfterLowering /\ data'.kind \notin AfterLowering
    BY <1>1, <2>2, <2>3, Kinds DEF AfterLowering
  <2>6. RenderInv'
    <3>1. \A i \in DOMAIN plan[Render].stages : ~ Yielded(Render, i)
      BY <2>5 DEF OutputInv, RenderInv
    <3>2. \A i \in DOMAIN plan[Render].stages : ~ (Yielded(Render, i))'
      BY <2>1, <2>2, <3>1 DEF Render
    <3> QED BY <2>1, <2>5, <3>2 DEF RenderInv
  <2>7. WriteInv'
    <3>1. ~ Yielded(Materialize, 1) /\ ~ Yielded(Report, 1)
      BY <2>5 DEF OutputInv, WriteInv, AfterLowering
    <3>2. ~ (Yielded(Materialize, 1))' /\ ~ (Yielded(Report, 1))'
      BY <2>1, <2>2, <3>1 DEF Materialize, Report
    <3> QED BY <3>2 DEF WriteInv
  <2>8. FilesInv'
    BY <1>1, <2>1, StaysJustified DEF OutputInv, FilesInv
  <2> QED BY <2>1, <2>4, <2>6, <2>7, <2>8
<1> QED BY <1>1, <1>3, <1>4

LEMMA RenderStep ==
  ASSUME IInv, OrchestratorInv, OutputInv, RenderUnits
  PROVE  OutcomesInv' /\ ChainInv' /\ RenderInv' /\ WriteInv' /\ FilesInv'
<1>1. /\ UNCHANGED <<args, files, reports>> /\ phase = Render /\ pc = "stage"
      /\ data.kind = Accepts[phase]
      /\ \/ P!FinishStage("error") /\ UNCHANGED data
         \/ /\ P!FinishStage("value")
            /\ data' = [kind  |-> Yields[phase],
                        units |-> data.units \cap {plan[Render].stages[pos]}]
  BY DEF RenderUnits
<1>2. OutcomesInv BY DEF OutputInv
<1>3. CASE P!FinishStage("error") /\ UNCHANGED data
  <2>1. /\ plan' = plan /\ failFast' = failFast /\ OutcomesInv'
        /\ \A p, i : (Yielded(p, i))' <=> Yielded(p, i)
    BY <1>2, <1>3, StageIsCalled
  <2>2. ChainInv' /\ RenderInv' /\ WriteInv' /\ FilesInv'
    BY <1>1, <1>3, <2>1, QuietStep
  <2> QED BY <2>1, <2>2
<1>4. CASE /\ P!FinishStage("value")
           /\ data' = [kind  |-> Yields[phase],
                       units |-> data.units \cap {plan[Render].stages[pos]}]
  <2>1. /\ plan' = plan /\ failFast' = failFast /\ OutcomesInv'
        /\ \A p, i : (Yielded(p, i))' <=> Yielded(p, i) \/ (p = phase /\ i = pos)
    BY <1>2, <1>4, StageIsCalled
  <2>2. pos \in DOMAIN plan[Render].stages /\ args.command = "build"
    BY <1>1, AtStage DEF Render, Parse, Validate, Normalize
  <2>3. data.kind = "lowered" /\ data'.kind = "emission"
    BY <1>1, <1>4, Kinds DEF Render
  <2>4. plan[Render].stages[pos] \in TargetsOf(args)
    <3>1. plan[Render].stages = RenderersOf(args)
      BY <2>2, StagesOf DEF IInv, Render
    <3> QED BY <2>2, <3>1, Renderers
  <2>5. data'.units = {plan[Render].stages[pos]}
    <3>1. data.units = TargetsOf(args) BY <2>3 DEF OutputInv, ChainInv
    <3> QED BY <1>4, <2>4, <3>1
  <2>6. ChainInv'
    BY <1>1, <2>1, <2>3 DEF OutputInv, ChainInv, AfterLowering
  <2>7. RenderInv'
    <3>1. \A i \in DOMAIN plan[Render].stages : ~ Yielded(Render, i)
      BY <2>3 DEF OutputInv, RenderInv, AfterLowering
    <3>2. \A i \in DOMAIN plan[Render].stages : (Yielded(Render, i))' <=> i = pos
      BY <1>1, <2>1, <3>1
    <3>3. data'.kind \in AfterLowering BY <2>3 DEF AfterLowering
    <3> QED BY <2>1, <2>2, <2>5, <3>2, <3>3 DEF RenderInv
  <2>8. WriteInv'
    <3>1. ~ Yielded(Materialize, 1) /\ ~ Yielded(Report, 1)
      BY <2>3 DEF OutputInv, WriteInv
    <3>2. ~ (Yielded(Materialize, 1))' /\ ~ (Yielded(Report, 1))'
      BY <1>1, <2>1, <3>1 DEF Materialize, Report, Render
    <3> QED BY <3>2 DEF WriteInv
  <2>9. FilesInv'
    BY <1>1, <2>1, StaysJustified DEF OutputInv, FilesInv
  <2> QED BY <2>1, <2>6, <2>7, <2>8, <2>9
<1> QED BY <1>1, <1>3, <1>4

\* The stages of a run that fails fast have all yielded, up to where it is.
LEMMA PassedStages ==
  ASSUME IInv, OrchestratorInv, OutcomesInv, failFast, pc # "end",
         NEW p \in 1 .. 10, p < phase, NEW i \in DOMAIN plan[p].stages
  PROVE  Yielded(p, i)
<1> DEFINE c == <<p, P!StagePart, i>>
<1>1. c \in P!Calls BY DEF P!Calls, P!CallsOf, P!Phase
<1>2. P!Before(c, P!Here) BY DEF P!Before, P!Here
<1>3. c \in P!Done /\ c \notin P!Failed
  BY <1>1, <1>2 DEF OrchestratorInv, P!PositionInv, P!Fatal
<1>4. outcome[c] \in {"none", "value", "nil", "error"}
  BY <1>1 DEF OrchestratorInv, P!TypeOK, P!Outcomes
<1> QED BY <1>1, <1>3, <1>4 DEF P!Done, P!Failed, OutcomesInv, Yielded

\* What the materializer is given was made by all the stages.
LEMMA GivenIsJustified ==
  ASSUME IInv, OrchestratorInv, OutputInv, pc = "stage", phase = Materialize,
         data.kind = "emission", ~ args.dryRun, NEW t \in data.units
  PROVE  Justified(t)
<1>1. args.command = "build"
  BY AtStage DEF Materialize, Parse, Validate, Normalize
<1>2. t \in TargetsOf(args) BY DEF OutputInv, OwnTypes
<1>3. \A p \in {Parse, Normalize, Plan, Capability, Lower} : Yielded(p, 1)
  BY DEF OutputInv, ChainInv, AfterLowering
<1>4. Rendered(t) BY DEF OutputInv, RenderInv, AfterLowering, Rendered
<1>5. ASSUME failFast PROVE Yielded(Validate, 1) /\ Yielded(Resolve, 1)
  <2>1. ASSUME NEW p \in {2, 3} PROVE 1 \in DOMAIN plan[p].stages
    <3>1. plan[p].stages = <<StageOf[p]>> BY <1>1, StagesOf DEF IInv, Render
    <3> QED BY <3>1
  <2> QED BY <1>5, <2>1, PassedStages DEF Validate, Resolve, Materialize, OutputInv
<1> QED BY <1>1, <1>2, <1>3, <1>4, <1>5 DEF Justified

LEMMA WriteStep ==
  ASSUME IInv, OrchestratorInv, OutputInv, WriteFiles
  PROVE  OutcomesInv' /\ ChainInv' /\ RenderInv' /\ WriteInv' /\ FilesInv'
<1>1. /\ UNCHANGED <<args, reports>> /\ phase = Materialize /\ pc = "stage"
      /\ data.kind = "emission"
  BY Kinds DEF WriteFiles, Materialize
<1>2. PICK o \in {"value", "error"} :
        /\ P!FinishStage(o)
        /\ data' = IF o = "value" THEN [data EXCEPT !.kind = "materialized"] ELSE data
        /\ \/ args.dryRun /\ UNCHANGED files
           \/ /\ ~ args.dryRun
              /\ \E written \in [data.units -> {"none", "part", "all"}] :
                   /\ files' = [t \in Targets |-> IF t \in data.units THEN written[t] ELSE files[t]]
                   /\ failFast /\ o = "value" => \A t \in data.units : written[t] = "all"
  <2>1. Yields[phase] = "materialized" BY <1>1, Kinds DEF Materialize
  <2>2. CASE args.dryRun
    BY <2>1, <2>2 DEF WriteFiles
  <2>3. CASE ~ args.dryRun
    BY <2>1, <2>3 DEF WriteFiles
  <2> QED BY <2>2, <2>3
<1>3. OutcomesInv BY DEF OutputInv
<1>4. /\ plan' = plan /\ failFast' = failFast /\ OutcomesInv'
      /\ \A p, i : (Yielded(p, i))' <=> Yielded(p, i) \/ (o = "value" /\ p = phase /\ i = pos)
  BY <1>2, <1>3, StageIsCalled
<1>5. pos = 1 BY <1>1, AtStage DEF Materialize, Render
<1>6. /\ data'.kind = (IF o = "value" THEN "materialized" ELSE "emission")
      /\ data'.units = data.units
  BY <1>1, <1>2 DEF OutputInv, OwnTypes
<1>7. ChainInv'
  BY <1>1, <1>4, <1>6 DEF OutputInv, ChainInv, AfterLowering
<1>8. RenderInv'
  <2>1. \A i : (Yielded(Render, i))' <=> Yielded(Render, i)
    BY <1>1, <1>4 DEF Render, Materialize
  <2>2. data.kind \in AfterLowering /\ data'.kind \in AfterLowering
    BY <1>1, <1>6 DEF AfterLowering
  <2> QED BY <1>4, <1>6, <2>1, <2>2 DEF OutputInv, RenderInv
<1>9. WriteInv'
  <2>1. ~ Yielded(Materialize, 1) /\ ~ Yielded(Report, 1)
    BY <1>1 DEF OutputInv, WriteInv
  <2>2. ~ (Yielded(Report, 1))'
    BY <1>1, <1>4, <2>1 DEF Materialize, Report
  <2>3. (Yielded(Materialize, 1))' => o = "value"
    BY <1>4, <2>1
  <2>4. ASSUME o = "value", failFast, ~ args.dryRun, NEW t \in data.units
        PROVE  files'[t] = "all"
    <3>1. t \in Targets
      BY TargetsAreTargets DEF OutputInv, OwnTypes
    <3> QED BY <1>2, <2>4, <3>1
  <2> QED BY <1>1, <1>4, <1>6, <2>2, <2>3, <2>4 DEF WriteInv
<1>10. FilesInv'
  <2> SUFFICES ASSUME NEW t \in Targets, files'[t] # "none" PROVE (Justified(t))'
    BY DEF FilesInv
  <2>1. Justified(t)
    <3>1. CASE files[t] # "none" BY <3>1 DEF OutputInv, FilesInv
    <3>2. CASE files'[t] # files[t]
      <4>1. ~ args.dryRun /\ t \in data.units BY <1>2, <3>2
      <4> QED BY <1>1, <4>1, GivenIsJustified
    <3> QED BY <3>1, <3>2
  <2> QED BY <1>1, <1>4, <2>1, StaysJustified
<1> QED BY <1>4, <1>7, <1>8, <1>9, <1>10

LEMMA ReportStep ==
  ASSUME IInv, OrchestratorInv, OutputInv, WriteReports
  PROVE  OutcomesInv' /\ ChainInv' /\ RenderInv' /\ WriteInv' /\ FilesInv'
<1>1. /\ UNCHANGED <<args, files>> /\ phase = Report /\ pc = "stage"
      /\ data.kind = "materialized"
  BY Kinds DEF WriteReports, Report
<1>2. PICK o \in {"value", "error"} :
        /\ P!FinishStage(o)
        /\ data' = IF o = "value" THEN [data EXCEPT !.kind = "report"] ELSE data
        /\ failFast /\ o = "value" => reports' = {"json", "md"}
  <2>1. Yields[phase] = "report" BY <1>1, Kinds DEF Report
  <2> QED BY <2>1 DEF WriteReports
<1>3. OutcomesInv BY DEF OutputInv
<1>4. /\ plan' = plan /\ failFast' = failFast /\ OutcomesInv' /\ ~ Yielded(phase, pos)
      /\ \A p, i : (Yielded(p, i))' <=> Yielded(p, i) \/ (o = "value" /\ p = phase /\ i = pos)
  BY <1>2, <1>3, StageIsCalled
<1>5. pos = 1 BY <1>1, AtStage DEF Report, Render
<1>6. /\ data'.kind = (IF o = "value" THEN "report" ELSE "materialized")
      /\ data'.units = data.units
  BY <1>1, <1>2 DEF OutputInv, OwnTypes
<1>7. ChainInv'
  BY <1>1, <1>4, <1>6 DEF OutputInv, ChainInv, AfterLowering
<1>8. RenderInv'
  <2>1. \A i : (Yielded(Render, i))' <=> Yielded(Render, i)
    BY <1>1, <1>4 DEF Render, Report
  <2>2. data.kind \in AfterLowering /\ data'.kind \in AfterLowering
    BY <1>1, <1>6 DEF AfterLowering
  <2> QED BY <1>4, <1>6, <2>1, <2>2 DEF OutputInv, RenderInv
<1>9. WriteInv'
  <2>1. (Yielded(Materialize, 1))' <=> Yielded(Materialize, 1)
    BY <1>1, <1>4 DEF Materialize, Report
  <2>2. (Yielded(Report, 1))' => o = "value"
    BY <1>1, <1>4, <1>5
  <2>3. Yielded(Materialize, 1) /\ failFast /\ ~ args.dryRun => \A t \in data.units : files[t] = "all"
    BY DEF OutputInv, WriteInv
  <2> QED BY <1>1, <1>2, <1>4, <1>6, <2>1, <2>2, <2>3 DEF WriteInv
<1>10. FilesInv'
  BY <1>1, <1>4, StaysJustified DEF OutputInv, FilesInv
<1> QED BY <1>4, <1>7, <1>8, <1>9, <1>10

LEMMA TypesStep ==
  ASSUME OutputInv, [Next]_vars
  PROVE  OwnTypes'
<1>1. args' = args
  BY DEF Next, Advance, Walk, RejectInput, TransformIR, RenderUnits, WriteFiles, WriteReports,
         BridgeObjects, ReturnToMain, Interrupt, vars, own
<1>2. data' \in [kind : {"paths"} \cup ToSet(Yields), units : SUBSET TargetsOf(args)]
  <2>1. data \in [kind : {"paths"} \cup ToSet(Yields), units : SUBSET TargetsOf(args)]
    BY DEF OutputInv, OwnTypes
  <2>2. CASE data' = data BY <2>1, <2>2
  <2>3. ASSUME NEW p \in 1 .. 10, NEW U \in SUBSET TargetsOf(args),
               data' = [kind |-> Yields[p], units |-> U]
        PROVE  data' \in [kind : {"paths"} \cup ToSet(Yields), units : SUBSET TargetsOf(args)]
    BY <2>3, Kinds
  <2>4. CASE TransformIR /\ data' # data
    <3>1. phase \in 1 .. 10 BY <2>4 DEF TransformIR, Parse, Lower
    <3>2. PICK U \in SUBSET TargetsOf(args) : data' = [kind |-> Yields[phase], units |-> U]
      BY <2>1, <2>4 DEF TransformIR
    <3> QED BY <2>3, <3>1, <3>2
  <2>5. CASE RenderUnits /\ data' # data
    <3>1. phase \in 1 .. 10 BY <2>5 DEF RenderUnits, Render
    <3>2. PICK U \in SUBSET TargetsOf(args) : data' = [kind |-> Yields[phase], units |-> U]
      BY <2>1, <2>5 DEF RenderUnits
    <3> QED BY <2>3, <3>1, <3>2
  <2>6. CASE (WriteFiles \/ WriteReports) /\ data' # data
    <3>1. phase \in 1 .. 10 /\ data' = [data EXCEPT !.kind = Yields[phase]]
      BY <2>6 DEF WriteFiles, WriteReports, Materialize, Report
    <3> QED BY <2>1, <3>1, Kinds
  <2>7. TransformIR \/ RenderUnits \/ WriteFiles \/ WriteReports \/ data' = data
    BY DEF Next, Advance, Walk, RejectInput, BridgeObjects, ReturnToMain, Interrupt, vars, own
  <2> QED BY <2>2, <2>4, <2>5, <2>6, <2>7
<1>3. objects' \in BOOLEAN
  <2>1. objects' = objects \/ objects' = (objects \/ data.kind = "semantic")
    BY DEF Next, Advance, Walk, RejectInput, TransformIR, RenderUnits, WriteFiles, WriteReports,
           BridgeObjects, ReturnToMain, Interrupt, vars, own
  <2> QED BY <2>1 DEF OutputInv, OwnTypes
<1>4. files' \in [Targets -> {"none", "part", "all"}]
  <2>1. files \in [Targets -> {"none", "part", "all"}] BY DEF OutputInv, OwnTypes
  <2>2. CASE WriteFiles BY <2>1, <2>2 DEF WriteFiles
  <2>3. CASE ~ WriteFiles
    <3>1. files' = files
      BY <2>3 DEF Next, Advance, Walk, RejectInput, TransformIR, RenderUnits, WriteReports,
                  BridgeObjects, ReturnToMain, Interrupt, vars, own
    <3> QED BY <2>1, <3>1
  <2> QED BY <2>2, <2>3
<1>5. reports' \subseteq {"json", "md"}
  <2>1. reports \subseteq {"json", "md"} BY DEF OutputInv, OwnTypes
  <2>2. CASE WriteReports BY <2>2 DEF WriteReports
  <2>3. CASE ~ WriteReports
    <3>1. reports' = reports
      BY <2>3 DEF Next, Advance, Walk, RejectInput, TransformIR, RenderUnits, WriteFiles,
                  BridgeObjects, ReturnToMain, Interrupt, vars, own
    <3> QED BY <2>1, <3>1
  <2> QED BY <2>2, <2>3
<1>6. code' \in {NotYet, 0, 1, 2} /\ exit' \in {NotYet, 0, 1}
  <2>1. code \in {NotYet, 0, 1, 2} /\ exit \in {NotYet, 0, 1} BY DEF OutputInv, OwnTypes
  <2>2. CASE ReturnToMain BY <2>2 DEF ReturnToMain
  <2>3. CASE ~ ReturnToMain
    <3>1. code' = code /\ exit' = exit
      BY <2>3 DEF Next, Advance, Walk, RejectInput, TransformIR, RenderUnits, WriteFiles,
                  WriteReports, BridgeObjects, Interrupt, vars, own
    <3> QED BY <2>1, <3>1
  <2> QED BY <2>2, <2>3
<1> QED
  <2>1. args' \in Invocations BY <1>1 DEF OutputInv, OwnTypes
  <2>2. data' \in [kind : {"paths"} \cup ToSet(Yields), units : SUBSET TargetsOf(args')]
    BY <1>1, <1>2
  <2> QED BY <1>3, <1>4, <1>5, <1>6, <2>1, <2>2 DEF OwnTypes

LEMMA NextOutput == IInv /\ OrchestratorInv /\ OutputInv /\ [Next]_vars => OutputInv'
<1> SUFFICES ASSUME IInv, OrchestratorInv, OutputInv, [Next]_vars PROVE OutputInv'
  OBVIOUS
<1>1. OwnTypes' /\ ExitInv' BY TypesStep, ExitStep
<1>2. OutcomesInv' /\ ChainInv' /\ RenderInv' /\ WriteInv' /\ FilesInv'
  <2>1. CASE RejectInput BY <2>1, RejectStep
  <2>2. CASE TransformIR BY <2>2, TransformStep
  <2>3. CASE RenderUnits BY <2>3, RenderStep
  <2>4. CASE WriteFiles BY <2>4, WriteStep
  <2>5. CASE WriteReports BY <2>5, ReportStep
  <2>6. CASE Between
    <3>1. OutcomesInv BY DEF OutputInv
    <3>2. /\ UNCHANGED <<plan, failFast, args, data, files, reports>>
          /\ \A p, i : (Yielded(p, i))' <=> Yielded(p, i)
          /\ OutcomesInv'
      BY <2>6, <3>1, NoStageIsCalled
    <3> QED BY <3>2, QuietStep
  <2> QED BY <2>1, <2>2, <2>3, <2>4, <2>5, <2>6 DEF Next, Advance, Between
<1> QED BY <1>1, <1>2 DEF OutputInv

LEMMA OutputInvariant == Spec => [](IInv /\ OrchestratorInv /\ OutputInv)
BY InitInv, NextInv, InitOutput, NextOutput, Orchestrated, PTL DEF Spec

(* A target's files are touched only by a real build that was asked for    *)
(* it, after every stage its output is made by succeeded.                  *)
THEOREM FilesHaveACause == Spec => []FilesAreJustified
<1>1. IInv /\ OrchestratorInv /\ OutputInv => FilesAreJustified
  <2> SUFFICES ASSUME IInv, OrchestratorInv, OutputInv PROVE FilesAreJustified
    OBVIOUS
  <2>1. TypeOK BY DEF OrchestratorInv, OutputInv, OwnTypes, ExitInv, TypeOK
  <2> QED BY <2>1 DEF FilesAreJustified, OutputInv, FilesInv, Justified
<1> QED BY <1>1, OutputInvariant, PTL

(* A build that fails fast and exits with 0 wrote all it was asked for.    *)
(* It had one target: with two, the second renderer rejects the first      *)
(* one's output, and each of them would have had to yield.                 *)
THEOREM SuccessIsComplete == Spec => []FailFastSuccessIsComplete
<1>1. IInv /\ OrchestratorInv /\ OutputInv => FailFastSuccessIsComplete
  <2> SUFFICES ASSUME IInv, OrchestratorInv, OutputInv,
                      exit = 0, failFast, args.command = "build"
               PROVE  /\ \A t \in TargetsOf(args) : Rendered(t)
                      /\ ~ args.dryRun => \A t \in TargetsOf(args) : files[t] = "all"
                      /\ reports = {"json", "md"}
    BY DEF FailFastSuccessIsComplete
  <2>1. P!Done = P!Calls /\ P!Failed \cap P!Fatal = {}
    BY DEF OutputInv, ExitInv, OrchestratorInv, P!ResultIsExplained
  <2>2. ASSUME NEW p \in 1 .. 10, NEW i \in DOMAIN plan[p].stages
        PROVE  Yielded(p, i)
    <3> DEFINE c == <<p, P!StagePart, i>>
    <3>1. c \in P!Calls BY DEF P!Calls, P!CallsOf, P!Phase
    <3>2. outcome[c] # "none" /\ outcome[c] # "error"
      BY <2>1, <3>1 DEF P!Done, P!Failed, P!Fatal
    <3>3. outcome[c] \in {"none", "value", "nil", "error"}
      BY <3>1 DEF OrchestratorInv, P!TypeOK, P!Outcomes
    <3> QED BY <3>1, <3>2, <3>3 DEF OutputInv, OutcomesInv, Yielded
  <2>3. ASSUME NEW p \in {Materialize, Report} PROVE Yielded(p, 1)
    <3>1. p \in 1 .. 10 /\ p # Render BY DEF Materialize, Report, Render
    <3>2. plan[p].stages = <<StageOf[p]>> BY <3>1, StagesOf DEF IInv
    <3> QED BY <2>2, <3>1, <3>2
  <2>4. ASSUME NEW t \in TargetsOf(args)
        PROVE  \E i \in DOMAIN plan[Render].stages :
                 plan[Render].stages[i] = t /\ Yielded(Render, i)
    <3>1. Render \in 1 .. 10 /\ plan[Render].stages = RenderersOf(args)
      BY StagesOf DEF IInv, Render
    <3>2. t \in Targets BY TargetsAreTargets DEF OutputInv, OwnTypes
    <3>3. PICK i \in DOMAIN RenderersOf(args) : RenderersOf(args)[i] = t
      BY <3>2, Renderers
    <3> QED BY <2>2, <3>1, <3>3
  <2>5. \A t \in TargetsOf(args) : Rendered(t) BY <2>4 DEF Rendered
  <2>6. \A t \in TargetsOf(args) : t \in data.units
    BY <2>4 DEF OutputInv, RenderInv
  <2>7. /\ ~ args.dryRun => \A t \in data.units : files[t] = "all"
        /\ reports = {"json", "md"}
    BY <2>3 DEF OutputInv, WriteInv
  <2> QED BY <2>5, <2>6, <2>7
<1> QED BY <1>1, OutputInvariant, PTL

-----------------------------------------------------------------------------
(***************************************************************************)
(* What the liveness of a command rests on                                 *)
(***************************************************************************)

(* An interrupt that arrives while a stage is still to be started is never *)
(* lost: whatever the stages and the hook of the command return, the run   *)
(* does not get past that stage to a success (executePhase).               *)
THEOREM InterruptedCommandsDoNotSucceed == Spec => P!CancellationSticks
<1>1. /\ 10 \in Nat \ {0}
      /\ {} \subseteq {"normalize-objects-bridge"}
      /\ {Wiring(inv) : inv \in Invocations} \subseteq [PP!Phase -> PP!PhasePlan]
  BY PlansAreRegistries
<1>2. PP!Spec => PP!CancellationSticks
  BY <1>1, PP!CancelledRunsDoNotSucceed
<1>3. PP!CancelledEarly <=> P!CancelledEarly
  BY SameCalls DEF P!CancelledEarly, PP!CancelledEarly
<1>4. PP!CancelledEarly' <=> P!CancelledEarly'
  <2>1. P!Calls' = PP!Calls' /\ P!Part' = PP!Part'
    BY DEF P!Calls, PP!Calls, P!CallsOf, PP!CallsOf, P!Phase, PP!Phase, P!Part, PP!Part,
           P!BeforePart, PP!BeforePart, P!StagePart, PP!StagePart, P!AfterPart, PP!AfterPart
  <2>2. P!StageCalls' = PP!StageCalls' /\ P!Done' = PP!Done' /\ P!Here' = PP!Here'
    BY <2>1 DEF P!StageCalls, PP!StageCalls, P!Done, PP!Done, P!Here, PP!Here, P!StagePart,
                PP!StagePart
  <2> QED BY <2>2 DEF P!CancelledEarly, PP!CancelledEarly
<1>5. [PP!CancelledEarly => PP!CancelledEarly' \/ result' \notin {"running", "ok"}]_(PP!vars)
      => [P!CancelledEarly => P!CancelledEarly' \/ result' \notin {"running", "ok"}]_(P!vars)
  BY <1>3, <1>4 DEF P!vars, PP!vars
<1> QED
  BY CommandsRunThePipeline, SameOrchestrator, <1>2, <1>5, PTL
      DEF P!CancellationSticks, PP!CancellationSticks

\* How far a command is from its end: the run of its pipeline, and the return to main.
CommandDistance == <<PP!Distance, IF exit = NotYet THEN 1 ELSE 0>>

CommandDistances == PP!Distances \X Nat

Nearer == LexPairOrdering(PP!Closer, OpToRel(<, Nat), PP!Distances, Nat)

LEMMA NearerIsWellFounded == IsWellFoundedOn(Nearer, CommandDistances)
<1>1. PP!IsWellFoundedOn(PP!Closer, PP!Distances)
  <2>1. /\ 10 \in Nat \ {0}
        /\ {} \subseteq {"normalize-objects-bridge"}
        /\ {Wiring(inv) : inv \in Invocations} \subseteq [PP!Phase -> PP!PhasePlan]
    BY PlansAreRegistries
  <2> QED BY <2>1, PP!CloserIsWellFounded
<1>2. IsWellFoundedOn(PP!Closer, PP!Distances)
  BY <1>1, Zenon DEF IsWellFoundedOn, PP!IsWellFoundedOn
<1>3. IsWellFoundedOn(OpToRel(<, Nat), Nat)
  BY NatLessThanWellFounded
<1> QED BY <1>2, <1>3, WFLexPairOrdering, Zenon DEF Nearer, CommandDistances

LEMMA NearerIf ==
  ASSUME NEW d \in PP!Distances, NEW e \in PP!Distances, NEW i \in Nat, NEW j \in Nat,
         <<e, d>> \in PP!Closer \/ (e = d /\ j < i)
  PROVE  <<<<e, j>>, <<d, i>>>> \in Nearer
<1>1. j < i => <<j, i>> \in OpToRel(<, Nat)
  BY Zenon DEF OpToRel
<1> QED BY <1>1 DEF Nearer, LexPairOrdering

LEMMA SameDistance == ASSUME UNCHANGED pipeline PROVE PP!Distance' = PP!Distance
BY DEF pipeline, PP!Distance, PP!PhasesLeft, PP!PartsLeft, PP!CallsLeft, PP!Part, PP!Width,
       PP!BeforePart, PP!StagePart, PP!AfterPart

LEMMA StagesAdvance ==
  ASSUME Advance
  PROVE  \/ ReturnToMain
         \/ P!Advance /\ exit' = exit
<1>1. \A o \in {"value", "nil", "error"} : P!FinishStage(o) \/ P!RunHook(o) => P!Advance
  BY DEF P!Advance, P!Outcomes
<1>2. CASE Walk
  BY <1>2 DEF Walk, P!Advance, own
<1>3. CASE RejectInput \/ TransformIR \/ RenderUnits \/ WriteReports \/ BridgeObjects
  BY <1>1, <1>3 DEF RejectInput, TransformIR, RenderUnits, WriteReports, BridgeObjects, own
<1>4. CASE WriteFiles
  BY <1>1, <1>4 DEF WriteFiles
<1> QED BY <1>2, <1>3, <1>4 DEF Advance

(* No command goes on for ever: every step of it comes nearer to its exit, *)
(* in an order that has no endless way down, and a signal does not take it *)
(* further away (runBuild, runValidate).                                   *)
THEOREM CommandsComeToAnEnd ==
  /\ IsWellFoundedOn(Nearer, CommandDistances)
  /\ Spec => [][(Advance => <<CommandDistance', CommandDistance>> \in Nearer)
                  /\ (Interrupt => CommandDistance' = CommandDistance)]_vars
<1>1. /\ 10 \in Nat \ {0}
      /\ {} \subseteq {"normalize-objects-bridge"}
      /\ {Wiring(inv) : inv \in Invocations} \subseteq [PP!Phase -> PP!PhasePlan]
  BY PlansAreRegistries
<1>2. PP!Spec => []((PP!Distance \in PP!Distances) /\ PP!IInv)
  BY <1>1, PP!DistanceInvariance
<1>3. PP!IInv /\ PP!IInv' /\ PP!Distance \in PP!Distances /\ (PP!Distance \in PP!Distances)' =>
        /\ PP!Advance => <<PP!Distance', PP!Distance>> \in PP!Closer
        /\ PP!Cancel => PP!Distance' = PP!Distance
  BY <1>1, PP!StepComesCloser
<1>4. /\ PP!IInv /\ PP!IInv' /\ (PP!Distance \in PP!Distances) /\ (PP!Distance \in PP!Distances)'
      /\ [Next]_vars
      => [(Advance => <<CommandDistance', CommandDistance>> \in Nearer)
            /\ (Interrupt => CommandDistance' = CommandDistance)]_vars
  <2> SUFFICES ASSUME PP!Distance \in PP!Distances, (PP!Distance \in PP!Distances)',
                      PP!Advance => <<PP!Distance', PP!Distance>> \in PP!Closer,
                      PP!Cancel => PP!Distance' = PP!Distance,
                      Next
               PROVE  /\ Advance => <<CommandDistance', CommandDistance>> \in Nearer
                      /\ Interrupt => CommandDistance' = CommandDistance
    BY <1>3
  <2>1. ASSUME Interrupt PROVE CommandDistance' = CommandDistance
    <3>1. PP!Cancel /\ exit' = exit
      BY <2>1, SameSteps DEF Interrupt, own
    <3> QED BY <3>1 DEF CommandDistance
  <2>2. ASSUME Advance PROVE <<CommandDistance', CommandDistance>> \in Nearer
    <3>1. CASE ReturnToMain
      <4>1. PP!Distance' = PP!Distance
        BY <3>1, SameDistance DEF ReturnToMain
      <4>2. exit = NotYet /\ exit' # NotYet
        BY <3>1 DEF ReturnToMain, NotYet
      <4>3. CommandDistance = <<PP!Distance, 1>> /\ CommandDistance' = <<PP!Distance', 0>>
        BY <4>2 DEF CommandDistance, NotYet
      <4>4. <<<<PP!Distance', 0>>, <<PP!Distance, 1>>>> \in Nearer
        BY <4>1, NearerIf
      <4> QED BY <4>3, <4>4
    <3>2. CASE P!Advance /\ exit' = exit
      <4>1. <<PP!Distance', PP!Distance>> \in PP!Closer
        BY <3>2, SameSteps
      <4>2. PICK i \in {0, 1} : CommandDistance = <<PP!Distance, i>> /\ CommandDistance' = <<PP!Distance', i>>
        BY <3>2 DEF CommandDistance, NotYet
      <4>3. <<<<PP!Distance', i>>, <<PP!Distance, i>>>> \in Nearer
        BY <4>1, NearerIf
      <4> QED BY <4>2, <4>3
    <3> QED BY <2>2, <3>1, <3>2, StagesAdvance
  <2> QED BY <2>1, <2>2
<1>5. Spec => [][(Advance => <<CommandDistance', CommandDistance>> \in Nearer)
                  /\ (Interrupt => CommandDistance' = CommandDistance)]_vars
  BY CommandsRunThePipeline, SameOrchestrator, <1>2, <1>4, PTL DEF Spec
<1> QED BY <1>5, NearerIsWellFounded
=============================================================================
